---- MODULE Spec2Model ----
(***************************************************************************)
(* The quantitative sales-economics engine of the call-center dashboard:   *)
(* SubscriptionService (discount lookup, contract optimizer),              *)
(* CostAnalysisService (tier recommender), AdvancedROICalculator (scenario *)
(* lookup, cash-flow projection), MarketPenetrationService (Bass curve)    *)
(* and AdvancedCostAnalysisService (total cost of ownership).              *)
(*                                                                         *)
(* Representation.                                                         *)
(*  - A Python str that the code upper()s or lower()s is a sequence of     *)
(*    one-character strings; other strings are TLA+ strings.               *)
(*  - A Python dict is a sequence of <<key, value>> pairs in insertion     *)
(*    order.                                                               *)
(*  - None is the empty sequence <<>>, a present value x is <<x>>.         *)
(*  - Money is in mills (1/1000 dollar) unless a comment says dollars;     *)
(*    catalog prices and fees are whole dollars as in Decimal("450").      *)
(*  - Table discounts are whole percents, a combined discount is in basis  *)
(*    points (1/10000), value scores are in 1/10000 of a point.            *)
(*  - Floating point arithmetic is modelled by exact arithmetic on these   *)
(*    scaled integers; a division that is not exact is floored unless the  *)
(*    code rounds, and then it is rounded as round() does.                 *)
(***************************************************************************)
EXTENDS Integers, Sequences, FiniteSets, TLC

VARIABLES
    subscription_tiers,        \* SubscriptionService.subscription_tiers
    industry_profiles,         \* SubscriptionService.industry_profiles
    volume_discounts,          \* SubscriptionService.volume_discounts
    term_incentives,           \* SubscriptionService.term_incentives
    cost_subscription_tiers,   \* CostAnalysisService.subscription_tiers
    scenarios,                 \* AdvancedROICalculator.scenarios
    industry_adoption_speeds,  \* MarketPenetrationService.industry_adoption_speeds
    adoption_curves,           \* MarketPenetrationService.adoption_curves
    market_entry_strategies,   \* MarketPenetrationService.market_entry_strategies
    call,                      \* the last engine call: operation and arguments
    result,                    \* what that call returned or raised
    memo                       \* an earlier call and its result, or <<>>

vars ==
    <<subscription_tiers, industry_profiles, volume_discounts, term_incentives,
      cost_subscription_tiers, scenarios, industry_adoption_speeds,
      adoption_curves, market_entry_strategies, call, result, memo>>

catalogs ==
    <<subscription_tiers, industry_profiles, volume_discounts, term_incentives,
      cost_subscription_tiers, scenarios, industry_adoption_speeds,
      adoption_curves, market_entry_strategies>>

(***************************************************************************)
(* Python values                                                           *)
(***************************************************************************)
None ==
    <<>>

Some(x) ==
    <<x>>

UpperLetters ==
    <<"A", "B", "C", "D", "E", "F", "G", "H", "I", "J", "K", "L", "M",
      "N", "O", "P", "Q", "R", "S", "T", "U", "V", "W", "X", "Y", "Z">>

LowerLetters ==
    <<"a", "b", "c", "d", "e", "f", "g", "h", "i", "j", "k", "l", "m",
      "n", "o", "p", "q", "r", "s", "t", "u", "v", "w", "x", "y", "z">>

\* str.lower(): every upper-case letter becomes its lower-case letter.
Lower(s) ==
    [i \in 1..Len(s) |->
        IF \E k \in 1..Len(UpperLetters) : UpperLetters[k] = s[i]
        THEN LowerLetters[CHOOSE k \in 1..Len(UpperLetters) : UpperLetters[k] = s[i]]
        ELSE s[i]]

\* str.upper(): every lower-case letter becomes its upper-case letter.
Upper(s) ==
    [i \in 1..Len(s) |->
        IF \E k \in 1..Len(LowerLetters) : LowerLetters[k] = s[i]
        THEN UpperLetters[CHOOSE k \in 1..Len(LowerLetters) : LowerLetters[k] = s[i]]
        ELSE s[i]]

\* key in dict
HasKey(dict, key) ==
    \E i \in 1..Len(dict) : dict[i][1] = key

\* dict[key], for a key of the dict
Get(dict, key) ==
    dict[CHOOSE i \in 1..Len(dict) : dict[i][1] = key][2]

\* round(n / d) for d > 0: to the nearest integer, a tie to the even one.
RoundDiv(n, d) ==
    LET q == n \div d
        r == n % d
    IN  IF 2 * r < d THEN q
        ELSE IF 2 * r > d THEN q + 1
        ELSE IF q % 2 = 0 THEN q ELSE q + 1

\* math.ceil(n / d) for d > 0
CeilDiv(n, d) ==
    -((-n) \div d)

\* max(a, b)
Max(a, b) ==
    IF a >= b THEN a ELSE b

\* an exception leaving the call
Raise(exc, msg) ==
    [kind |-> "raise", exc |-> exc, msg |-> msg]

\* bool(x) of an optional number: None and 0 are false.
Truthy(x) ==
    x # None /\ x[1] # 0

Min(S) ==
    CHOOSE x \in S : \A y \in S : x <= y

(***************************************************************************)
(* SubscriptionService: the catalogs set by __init__                       *)
(***************************************************************************)
\* name, max_calls, price_per_month and setup_fee in dollars, features,
\* min_term_months, overage_rate in mills per call
SubscriptionTiers ==
    << <<(<<"s", "t", "a", "r", "t", "e", "r">>),
         [name |-> <<"S", "t", "a", "r", "t", "e", "r">>,
          max_calls |-> 1000,
          price_per_month |-> 450,
          setup_fee |-> 1000,
          features |-> <<"AI-powered outbound calls",
                         "Basic analytics dashboard",
                         "Standard business hours support",
                         "Basic call scripts">>,
          min_term_months |-> 6,
          overage_rate |-> 500]>>,
       <<(<<"p", "r", "o", "f", "e", "s", "s", "i", "o", "n", "a", "l">>),
         [name |-> <<"P", "r", "o", "f", "e", "s", "s", "i", "o", "n", "a", "l">>,
          max_calls |-> 5000,
          price_per_month |-> 2000,
          setup_fee |-> 2500,
          features |-> <<"All Starter features",
                         "24/7 call availability",
                         "Advanced analytics and reporting",
                         "Custom call scripts",
                         "Priority support",
                         "Call recording and transcription">>,
          min_term_months |-> 12,
          overage_rate |-> 450]>>,
       <<(<<"e", "n", "t", "e", "r", "p", "r", "i", "s", "e">>),
         [name |-> <<"E", "n", "t", "e", "r", "p", "r", "i", "s", "e">>,
          max_calls |-> 10000,
          price_per_month |-> 3500,
          setup_fee |-> 5000,
          features |-> <<"All Professional features",
                         "Dedicated account manager",
                         "Custom AI agent personalities",
                         "API integration",
                         "Advanced customization options",
                         "SLA guarantees",
                         "Training and onboarding support">>,
          min_term_months |-> 12,
          overage_rate |-> 400]>>,
       <<(<<"u", "l", "t", "i", "m", "a", "t", "e">>),
         [name |-> <<"U", "l", "t", "i", "m", "a", "t", "e">>,
          max_calls |-> 25000,
          price_per_month |-> 7500,
          setup_fee |-> 10000,
          features |-> <<"All Enterprise features",
                         "Multi-language support",
                         "Custom integration development",
                         "Dedicated development team",
                         "White-label options",
                         "Custom analytics development",
                         "Executive quarterly reviews">>,
          min_term_months |-> 24,
          overage_rate |-> 350]>> >>

\* The member names of the Industry enum.
IndustryNames ==
    { <<"F", "I", "N", "A", "N", "C", "I", "A", "L">>,
      <<"H", "E", "A", "L", "T", "H", "C", "A", "R", "E">>,
      <<"R", "E", "A", "L", "_", "E", "S", "T", "A", "T", "E">>,
      <<"T", "E", "C", "H", "N", "O", "L", "O", "G", "Y">>,
      <<"R", "E", "T", "A", "I", "L">>,
      <<"M", "A", "N", "U", "F", "A", "C", "T", "U", "R", "I", "N", "G">>,
      <<"E", "D", "U", "C", "A", "T", "I", "O", "N">>,
      <<"P", "R", "O", "F", "E", "S", "S", "I", "O", "N", "A", "L", "_",
        "S", "E", "R", "V", "I", "C", "E", "S">> }

\* industry_profiles, keyed by the enum member's name: specialized_features
\* and cost_multiplier in hundredths (1.4 is 140).
IndustryProfiles ==
    << <<(<<"F", "I", "N", "A", "N", "C", "I", "A", "L">>),
         [specialized_features |-> {"Compliance recording", "Risk assessment",
                                    "Fraud detection", "Transaction verification"},
          cost_multiplier |-> 140]>>,
       <<(<<"H", "E", "A", "L", "T", "H", "C", "A", "R", "E">>),
         [specialized_features |-> {"PHI handling", "Medical terminology",
                                    "Insurance verification", "Appointment scheduling"},
          cost_multiplier |-> 135]>>,
       <<(<<"R", "E", "A", "L", "_", "E", "S", "T", "A", "T", "E">>),
         [specialized_features |-> {"Property matching", "Scheduling viewings",
                                    "Market analysis", "Lead scoring"},
          cost_multiplier |-> 115]>>,
       <<(<<"T", "E", "C", "H", "N", "O", "L", "O", "G", "Y">>),
         [specialized_features |-> {"Technical qualification", "Product compatibility",
                                    "Integration planning", "Technical support"},
          cost_multiplier |-> 125]>> >>

\* (annual calls, discount in percent)
VolumeDiscounts ==
    << <<50000, 5>>, <<100000, 10>>, <<250000, 15>>, <<500000, 20>>,
       <<1000000, 25>> >>

\* (contract months, discount in percent)
TermIncentives ==
    << <<12, 0>>, <<24, 10>>, <<36, 15>>, <<48, 20>>, <<60, 25>> >>

(***************************************************************************)
(* The catalogs of the other services                                      *)
(***************************************************************************)
\* CostAnalysisService.subscription_tiers, a list: price_per_month and
\* setup_fee in dollars.
CostSubscriptionTiers ==
    << [name |-> "Starter", max_calls |-> 1000, price_per_month |-> 450,
        setup_fee |-> 1000],
       [name |-> "Professional", max_calls |-> 5000, price_per_month |-> 2000,
        setup_fee |-> 2500],
       [name |-> "Enterprise", max_calls |-> 10000, price_per_month |-> 3500,
        setup_fee |-> 5000],
       [name |-> "Ultimate", max_calls |-> 25000, price_per_month |-> 7500,
        setup_fee |-> 10000] >>

\* AdvancedROICalculator.scenarios: assumptions and multipliers in percent.
Scenarios ==
    <<
       <<(<<"c", "o", "n", "s", "e", "r", "v", "a", "t", "i", "v", "e">>),
         [name |-> <<"C", "o", "n", "s", "e", "r", "v", "a", "t", "i", "v", "e">>,
          assumptions |-> [efficiency_gain |-> 20, quality_improvement |-> 10,
                           conversion_boost |-> 5],
          multipliers |-> [cost_reduction |-> 40, revenue_increase |-> 10,
                           productivity_gain |-> 20]]>>,
       <<(<<"m", "o", "d", "e", "r", "a", "t", "e">>),
         [name |-> <<"M", "o", "d", "e", "r", "a", "t", "e">>,
          assumptions |-> [efficiency_gain |-> 35, quality_improvement |-> 25,
                           conversion_boost |-> 15],
          multipliers |-> [cost_reduction |-> 50, revenue_increase |-> 20,
                           productivity_gain |-> 35]]>>,
       <<(<<"a", "g", "g", "r", "e", "s", "s", "i", "v", "e">>),
         [name |-> <<"A", "g", "g", "r", "e", "s", "s", "i", "v", "e">>,
          assumptions |-> [efficiency_gain |-> 50, quality_improvement |-> 40,
                           conversion_boost |-> 25],
          multipliers |-> [cost_reduction |-> 60, revenue_increase |-> 30,
                           productivity_gain |-> 50]]>> >>

\* MarketPenetrationService.industry_adoption_speeds, in tenths.
IndustryAdoptionSpeeds ==
    <<
       <<(<<"F", "I", "N", "A", "N", "C", "I", "A", "L">>), 12>>,
       <<(<<"H", "E", "A", "L", "T", "H", "C", "A", "R", "E">>), 8>>,
       <<(<<"R", "E", "A", "L", "_", "E", "S", "T", "A", "T", "E">>), 10>>,
       <<(<<"T", "E", "C", "H", "N", "O", "L", "O", "G", "Y">>), 15>>,
       <<(<<"R", "E", "T", "A", "I", "L">>), 11>>,
       <<(<<"M", "A", "N", "U", "F", "A", "C", "T", "U", "R", "I", "N", "G">>), 9>>,
       <<(<<"E", "D", "U", "C", "A", "T", "I", "O", "N">>), 7>>,
       <<(<<"P", "R", "O", "F", "E", "S", "S", "I", "O", "N", "A", "L", "_", "S", "E", "R", "V", "I", "C", "E", "S">>), 13>> >>

\* MarketPenetrationService.adoption_curves: each phase's share, in
\* 1/1000000.
AdoptionCurves ==
    << <<"innovators", 25000>>, <<"early_adopters", 135000>>,
       <<"early_majority", 340000>>, <<"late_majority", 340000>>,
       <<"laggards", 160000>> >>

\* MarketPenetrationService.market_entry_strategies
MarketEntryStrategies ==
    <<
       <<(<<"F", "I", "N", "A", "N", "C", "I", "A", "L">>),
         [initial_focus |-> <<"cost_reduction", "compliance", "efficiency">>,
          key_differentiators |-> <<"regulatory_compliance", "security", "accuracy">>,
          partnership_approach |-> <<"technology_vendors", "compliance_firms">>,
          pilot_program_length |-> 3]>>,
       <<(<<"H", "E", "A", "L", "T", "H", "C", "A", "R", "E">>),
         [initial_focus |-> <<"patient_experience", "hipaa_compliance", "scheduling">>,
          key_differentiators |-> <<"phi_protection", "integration", "accuracy">>,
          partnership_approach |-> <<"healthcare_systems", "insurance_providers">>,
          pilot_program_length |-> 4]>>,
       <<(<<"R", "E", "A", "L", "_", "E", "S", "T", "A", "T", "E">>),
         [initial_focus |-> <<"lead_response", "availability", "follow_up">>,
          key_differentiators |-> <<"24_7_availability", "personalization", "speed">>,
          partnership_approach |-> <<"brokerages", "property_management_firms">>,
          pilot_program_length |-> 2]>>,
       <<(<<"T", "E", "C", "H", "N", "O", "L", "O", "G", "Y">>),
         [initial_focus |-> <<"scalability", "integration", "customization">>,
          key_differentiators |-> <<"api_access", "customization", "analytics">>,
          partnership_approach |-> <<"system_integrators", "tech_consultants">>,
          pilot_program_length |-> 2]>> >>

(***************************************************************************)
(* The state after the services are constructed                            *)
(***************************************************************************)
Constructed ==
    /\ subscription_tiers = SubscriptionTiers
    /\ industry_profiles = IndustryProfiles
    /\ volume_discounts = VolumeDiscounts
    /\ term_incentives = TermIncentives
    /\ cost_subscription_tiers = CostSubscriptionTiers
    /\ scenarios = Scenarios
    /\ industry_adoption_speeds = IndustryAdoptionSpeeds
    /\ adoption_curves = AdoptionCurves
    /\ market_entry_strategies = MarketEntryStrategies

\* The result of a call that has not returned yet.
Pending ==
    [kind |-> "pending"]

\* A caller has invoked an engine operation with arguments of its choice.
Invoked(Calls) ==
    /\ call \in Calls
    /\ result = Pending
    /\ memo = None

\* The invoked operation runs: it reads the catalogs and returns or raises.
Return(res) ==
    /\ result = Pending
    /\ result' = res
    /\ UNCHANGED <<catalogs, call, memo>>

(***************************************************************************)
(* SubscriptionService.calculate_volume_discounts                          *)
(***************************************************************************)
\* LookupDiscount with the comparison turned round.
LookupDiscountFlipped(table, value) ==
    LET hits == {i \in 1..Len(table) : value <= table[i][1]}
    IN  IF hits = {} THEN 0 ELSE table[Min(hits)][2]

\* The for-loop with break: the discount of the first entry, in table
\* order, whose threshold the value reaches, 0.0 when there is none.
LookupDiscount(table, value) ==
    LET hits == {i \in 1..Len(table) : value >= table[i][1]}
    IN  IF hits = {} THEN 0 ELSE table[Min(hits)][2]

\* CombinedDiscount stacking the two discounts additively.
CombinedDiscountAdditive(volume_discount, term_discount) ==
    (volume_discount + term_discount) * 100

\* 1 - ((1 - volume_discount) * (1 - term_discount)), percents in, basis
\* points out.
CombinedDiscount(volume_discount, term_discount) ==
    10000 - ((100 - volume_discount) * (100 - term_discount))

\* base_price in dollars; the prices of the result in mills, rounded to
\* cents where the code rounds.
calculate_volume_discounts(base_price, annual_call_volume, contract_months) ==
    LET volume_discount == LookupDiscount(volume_discounts, annual_call_volume)
        term_discount == LookupDiscount(term_incentives, contract_months)
        combined_discount == CombinedDiscount(volume_discount, term_discount)
    IN  [kind |-> "ok",
         base_annual_price |-> base_price * 12000,
         discounted_annual_price |->
             10 * RoundDiv(base_price * 12 * (10000 - combined_discount), 100),
         volume_discount |-> volume_discount,
         term_discount |-> term_discount,
         combined_discount |-> combined_discount,
         annual_savings |-> 10 * RoundDiv(base_price * 12 * combined_discount, 100),
         total_contract_savings |->
             10 * RoundDiv(base_price * combined_discount * contract_months, 100)]

(***************************************************************************)
(* SubscriptionService.calculate_subscription_cost                         *)
(***************************************************************************)
calculate_subscription_cost(tier_name, duration_months, estimated_calls) ==
    IF ~HasKey(subscription_tiers, Lower(tier_name))
    THEN Raise("ValueError", "Invalid tier")
    ELSE
        LET tier == Get(subscription_tiers, Lower(tier_name))
            base_monthly == tier.price_per_month * 1000
            setup == tier.setup_fee * 1000
            monthly_overage == Max(0, estimated_calls - tier.max_calls)
            overage_cost == monthly_overage * tier.overage_rate
        IN  IF duration_months < tier.min_term_months
            THEN Raise("ValueError", "Minimum term")
            ELSE [kind |-> "ok",
                  base_monthly_fee |-> base_monthly,
                  setup_fee |-> setup,
                  estimated_monthly_overage |-> overage_cost,
                  total_monthly_cost |-> base_monthly + overage_cost,
                  total_contract_value |->
                      (base_monthly + overage_cost) * duration_months + setup]

(***************************************************************************)
(* SubscriptionService.optimize_contract_terms                             *)
(***************************************************************************)
\* math.log(term_months) in 1/10000, for the terms of term_incentives.
Log(term_months) ==
    CASE term_months = 12 -> 24849
      [] term_months = 24 -> 31781
      [] term_months = 36 -> 35835
      [] term_months = 48 -> 38712
      [] term_months = 60 -> 40943

\* min(1.0, tier.max_calls / estimated_calls) * 20, floored to 1/10000.
VolumeEfficiency(max_calls, estimated_calls) ==
    IF max_calls >= estimated_calls
    THEN 200000
    ELSE ((max_calls * 1000) \div estimated_calls) * 200
         + ((((max_calls * 1000) % estimated_calls) * 200) \div estimated_calls)

\* (1000 / monthly_cost) * 10, floored to 1/10000; monthly_cost in mills.
CostEfficiency(monthly_cost) ==
    (1000000000 \div monthly_cost) * 100
    + (((1000000000 % monthly_cost) * 100) \div monthly_cost)

\* _calculate_value_score, in 1/10000 of a point; monthly_cost in mills.
calculate_value_score(tier, term_months, estimated_calls, industry_profile, monthly_cost) ==
    LET feature_value == Len(tier.features) * 100000
        term_value == Log(term_months) * 5
        volume_efficiency == VolumeEfficiency(tier.max_calls, estimated_calls)
        industry_alignment ==
            Cardinality({i \in 1..Len(tier.features) :
                tier.features[i] \in industry_profile.specialized_features}) * 150000
        cost_efficiency == CostEfficiency(monthly_cost)
    IN  feature_value + term_value + volume_efficiency + industry_alignment
        + cost_efficiency

\* _calculate_roi_period: total_cost in mills; the human cost per call is
\* 8.0 * cost_multiplier dollars, ours $0.50.
calculate_roi_period(total_cost, estimated_calls, industry_profile) ==
    LET cost_per_human_call == 80 * industry_profile.cost_multiplier
        monthly_savings == estimated_calls * (cost_per_human_call - 500)
    IN  CeilDiv(total_cost, monthly_savings)

\* The budget test of the search loop:
\* budget_constraint and total_cost > budget_constraint
ExceedsBudget(total_cost, budget_constraint) ==
    Truthy(budget_constraint) /\ total_cost > budget_constraint[1]

\* The update test taking the cheaper candidate whatever its value score.
ImprovesOnCost(value_score, total_cost, best) ==
    best.min_cost = None \/ total_cost < best.min_cost[1]

\* The update test of the search loop; min_cost starts at float('inf'),
\* which is None here.
Improves(value_score, total_cost, best) ==
    \/ value_score > best.best_value
    \/ /\ value_score = best.best_value
       /\ (best.min_cost = None \/ total_cost < best.min_cost[1])

\* The (tier, term) pairs in the order the nested loops visit them.
Candidates ==
    [k \in 1..(Len(subscription_tiers) * Len(term_incentives)) |->
        <<((k - 1) \div Len(term_incentives)) + 1,
          ((k - 1) % Len(term_incentives)) + 1>>]

\* What the k-th pass of the loop body computes.
Candidate(k, estimated_calls, profile) ==
    LET tier == subscription_tiers[Candidates[k][1]][2]
        term_months == term_incentives[Candidates[k][2]][1]
        discounts == calculate_volume_discounts(
                         tier.price_per_month, estimated_calls * 12, term_months)
        monthly_cost ==
            (tier.price_per_month * (10000 - discounts.combined_discount)) \div 10
        total_cost == monthly_cost * term_months + tier.setup_fee * 1000
    IN  [tier |-> tier,
         term_months |-> term_months,
         monthly_cost |-> monthly_cost,
         total_cost |-> total_cost,
         value_score |-> calculate_value_score(
                             tier, term_months, estimated_calls, profile, monthly_cost)]

\* The search loop from its k-th pass on, best being the four locals
\* optimal_tier, optimal_term, min_cost and best_value.
RECURSIVE SearchFrom(_, _, _, _, _)
SearchFrom(k, best, estimated_calls, profile, budget_constraint) ==
    IF k > Len(Candidates)
    THEN best
    ELSE
        LET c == Candidate(k, estimated_calls, profile)
            next ==
                IF ExceedsBudget(c.total_cost, budget_constraint)
                THEN best
                ELSE IF Improves(c.value_score, c.total_cost, best)
                THEN [optimal_tier |-> Some(c.tier),
                      optimal_term |-> c.term_months,
                      min_cost |-> Some(c.total_cost),
                      best_value |-> c.value_score]
                ELSE best
        IN  SearchFrom(k + 1, next, estimated_calls, profile, budget_constraint)

optimize_contract_terms(estimated_calls, industry, budget_constraint) ==
    IF Upper(industry) \notin IndustryNames \/ ~HasKey(industry_profiles, Upper(industry))
    THEN Raise("ValueError", "Invalid industry")
    ELSE IF estimated_calls = 0
    THEN Raise("ZeroDivisionError", "division by zero")
    ELSE
        LET profile == Get(industry_profiles, Upper(industry))
            best == SearchFrom(1,
                               [optimal_tier |-> None, optimal_term |-> 12,
                                min_cost |-> None, best_value |-> 0],
                               estimated_calls, profile, budget_constraint)
        IN  IF best.optimal_tier = None
            THEN [kind |-> "error",
                  error |-> "No suitable configuration found within constraints"]
            ELSE
                LET optimal_tier == best.optimal_tier[1]
                    min_cost == best.min_cost[1]
                    optimized_costs == calculate_subscription_cost(
                        optimal_tier.name, best.optimal_term, estimated_calls)
                IN  IF optimized_costs.kind = "raise"
                    THEN optimized_costs
                    ELSE [kind |-> "ok",
                          recommended_tier |-> optimal_tier.name,
                          recommended_term |-> best.optimal_term,
                          monthly_cost |-> 10 * RoundDiv(min_cost, 10 * best.optimal_term),
                          total_contract_value |-> 10 * RoundDiv(min_cost, 10),
                          value_score |-> RoundDiv(best.best_value, 100),
                          cost_breakdown |-> optimized_costs,
                          features |-> optimal_tier.features,
                          roi_period_months |->
                              calculate_roi_period(min_cost, estimated_calls, profile)]

(***************************************************************************)
(* The calls of the contract optimizer                                     *)
(***************************************************************************)
\* Monthly call volumes, around the tiers' max_calls, the first volume
\* threshold (50000 calls a year is 4167 a month) and the volume at which
\* the best value score passes from Enterprise to Ultimate (10871 / 10872).
CallsInputs ==
    {0, 1, 800, 1000, 3000, 4166, 4167, 5000, 8334, 10000, 10001, 10871, 10872,
     25000, 25001, 90000}

IndustryInputs ==
    { <<"f", "i", "n", "a", "n", "c", "i", "a", "l">>,
      <<"h", "e", "a", "l", "t", "h", "c", "a", "r", "e">>,
      <<"R", "e", "a", "l", "_", "E", "s", "t", "a", "t", "e">>,
      <<"t", "e", "c", "h", "n", "o", "l", "o", "g", "y">>,
      <<"T", "E", "C", "H", "N", "O", "L", "O", "G", "Y">>,
      <<"r", "e", "t", "a", "i", "l">>,
      <<"f", "i", "n", "a", "n", "c", "i", "a", "l", "_",
        "s", "e", "r", "v", "i", "c", "e", "s">> }

\* No budget, a budget of 0, and budgets in mills from $5,000 to $500,000.
BudgetInputs ==
    {None, Some(0), Some(5000000), Some(13000000), Some(50000000),
     Some(100000000), Some(190000000), Some(500000000)}

\* Catalog prices in dollars.
PriceInputs ==
    {450, 7500}

\* Annual call volumes around every threshold of volume_discounts.
AnnualVolumeInputs ==
    {0, 49999, 50000, 99999, 100000, 250000, 499999, 500000, 1000000, 1200000}

\* Contract months around every threshold of term_incentives.
MonthInputs ==
    {1, 11, 12, 23, 24, 36, 47, 48, 59, 60}

ContractCalls ==
    {[op |-> "calculate_volume_discounts", args |-> <<p, v, m>>] :
        p \in PriceInputs, v \in AnnualVolumeInputs, m \in MonthInputs}
    \cup
    {[op |-> "optimize_contract_terms", args |-> <<c, i, b>>] :
        c \in CallsInputs, i \in IndustryInputs, b \in BudgetInputs}

CalculateVolumeDiscounts ==
    /\ call.op = "calculate_volume_discounts"
    /\ Return(calculate_volume_discounts(call.args[1], call.args[2], call.args[3]))

\* OptimizeContractTerms sorting term_incentives in place, the longest
\* term first.
OptimizeContractTermsSorting ==
    /\ call.op = "optimize_contract_terms"
    /\ result = Pending
    /\ result' = optimize_contract_terms(call.args[1], call.args[2], call.args[3])
    /\ term_incentives' =
           [i \in 1..Len(term_incentives) |->
               term_incentives[Len(term_incentives) + 1 - i]]
    /\ UNCHANGED <<subscription_tiers, industry_profiles, volume_discounts,
                   cost_subscription_tiers, scenarios, industry_adoption_speeds,
                   adoption_curves, market_entry_strategies, call, memo>>

OptimizeContractTerms ==
    /\ call.op = "optimize_contract_terms"
    /\ Return(optimize_contract_terms(call.args[1], call.args[2], call.args[3]))

InitContract ==
    Constructed /\ Invoked(ContractCalls)

NextContract ==
    \/ CalculateVolumeDiscounts
    \/ OptimizeContractTerms

SpecContract ==
    InitContract /\ [][NextContract]_vars

(***************************************************************************)
(* Claims about the contract optimizer and the discount lookup             *)
(***************************************************************************)
Returned(op) ==
    call.op = op /\ result # Pending

\* The industry strings optimize_contract_terms accepts.
HasProfile(industry) ==
    HasKey(IndustryProfiles, Upper(industry))

\* C1: whenever optimize_contract_terms is given estimated_calls > 0, an
\* industry with a profile and a budget_constraint >= 0 (0 included), a
\* returned configuration's total_contract_value does not exceed the budget.
C1_WithinBudget ==
    (/\ Returned("optimize_contract_terms")
     /\ call.args[1] > 0
     /\ HasProfile(call.args[2])
     /\ call.args[3] # None
     /\ result.kind = "ok")
    => result.total_contract_value <= call.args[3][1]

\* C2: for estimated_calls > 0 and an industry with a profile, with or
\* without a budget, optimize_contract_terms returns a configuration or the
\* 'no suitable configuration' result; it does not raise.
C2_NeverRaises ==
    (/\ Returned("optimize_contract_terms")
     /\ call.args[1] > 0
     /\ HasProfile(call.args[2]))
    => result.kind \in {"ok", "error"}

\* The discount of the largest threshold of the table that the value
\* reaches, 0 when it reaches none.
HighestQualifying(table, value) ==
    LET hits == {i \in 1..Len(table) : table[i][1] <= value}
    IN  IF hits = {}
        THEN 0
        ELSE table[CHOOSE i \in hits : \A j \in hits : table[j][1] <= table[i][1]][2]

\* C3: calculate_volume_discounts returns, as volume_discount, the discount
\* of the largest volume threshold <= annual_call_volume and, as
\* term_discount, the discount of the largest term threshold <=
\* contract_months (0 below every threshold): 24 months give 10%, 60 months
\* 25%, 1,000,000 annual calls 25%.
C3_HighestThreshold ==
    Returned("calculate_volume_discounts")
    => /\ result.volume_discount = HighestQualifying(VolumeDiscounts, call.args[2])
       /\ result.term_discount = HighestQualifying(TermIncentives, call.args[3])

\* C4: the discount lookup is monotonic: a call with annual volume a and
\* term s returns a volume discount, a term discount and a combined discount
\* that are each <= those returned for any volume b >= a and term t >= s.
C4_LookupMonotonic ==
    Returned("calculate_volume_discounts")
    => \A b \in AnnualVolumeInputs, t \in MonthInputs :
          (call.args[2] <= b /\ call.args[3] <= t)
          => LET more == calculate_volume_discounts(call.args[1], b, t)
             IN  /\ result.volume_discount <= more.volume_discount
                 /\ result.term_discount <= more.term_discount
                 /\ result.combined_discount <= more.combined_discount

\* A call below the first volume threshold has returned, and a larger
\* volume that earns a larger discount exists.
C4_Witness ==
    /\ Returned("calculate_volume_discounts")
    /\ call.args[2] = 49999
    /\ call.args[3] = 24
    /\ result.volume_discount = 0
    /\ calculate_volume_discounts(call.args[1], 50000, 60).volume_discount = 5

WithinBudgetPasses ==
    {k \in 1..Len(Candidates) :
        ~ExceedsBudget(Candidate(k, call.args[1],
                                 Get(IndustryProfiles, Upper(call.args[2]))).total_cost,
                       call.args[3])}

\* The candidate of pass k is no worse than that of pass j: a higher value
\* score, or the same score at a lower total cost, or the same of both
\* and an earlier pass.
NoWorse(k, j) ==
    LET a == Candidate(k, call.args[1], Get(IndustryProfiles, Upper(call.args[2])))
        b == Candidate(j, call.args[1], Get(IndustryProfiles, Upper(call.args[2])))
    IN  \/ a.value_score > b.value_score
        \/ a.value_score = b.value_score /\ a.total_cost < b.total_cost
        \/ a.value_score = b.value_score /\ a.total_cost = b.total_cost /\ k <= j

\* The (tier, term) pair of pass k is the one the result names.
IsReturned(k) ==
    /\ subscription_tiers[Candidates[k][1]][2].name = result.recommended_tier
    /\ term_incentives[Candidates[k][2]][1] = result.recommended_term

\* C15: a configuration optimize_contract_terms returns has a value score
\* >= that of every (tier, term) candidate the budget test lets through;
\* among the candidates of that score it has the lowest total cost, and
\* among those of that score and cost it is the first in iteration order
\* (tiers in catalog order, then terms ascending).
C15_MaxValueThenMinCost ==
    (Returned("optimize_contract_terms") /\ result.kind = "ok")
    => \E k \in WithinBudgetPasses :
          /\ IsReturned(k)
          /\ \A j \in WithinBudgetPasses : NoWorse(k, j)

\* A configuration has been returned although a cheaper candidate of a
\* lower value score was within the budget, and a candidate of a higher
\* value score was over the budget.
C15_Witness ==
    /\ Returned("optimize_contract_terms")
    /\ result.kind = "ok"
    /\ \E k \in WithinBudgetPasses :
          /\ IsReturned(k)
          /\ \E j \in WithinBudgetPasses :
                Candidate(j, call.args[1], Get(IndustryProfiles, Upper(call.args[2]))).total_cost
                < Candidate(k, call.args[1], Get(IndustryProfiles, Upper(call.args[2]))).total_cost
          /\ \E j \in (1..Len(Candidates)) \ WithinBudgetPasses :
                Candidate(j, call.args[1], Get(IndustryProfiles, Upper(call.args[2]))).value_score
                > Candidate(k, call.args[1], Get(IndustryProfiles, Upper(call.args[2]))).value_score

(***************************************************************************)
(* AdvancedROICalculator.  Money is in cents here: the calculator rounds   *)
(* every amount it reports to 2 decimal places.  A scenario's assumptions  *)
(* and multipliers and the industry factors are in percent.                *)
(***************************************************************************)
\* The quotient n / d as <<floor, remainder>>, d > 0.
Quot(n, d) ==
    <<n \div d, n % d>>

\* The quotient q (of denominator d) times k >= 0.
Scale(q, k, d) ==
    <<k * q[1] + ((k * q[2]) \div d), (k * q[2]) % d>>

\* round() of the quotient q of denominator d: nearest, a tie to even.
RoundQuot(q, d) ==
    IF 2 * q[2] < d THEN q[1]
    ELSE IF 2 * q[2] > d THEN q[1] + 1
    ELSE IF q[1] % 2 = 0 THEN q[1] ELSE q[1] + 1

\* for month in range(1, 61)
ProjectionMonths ==
    60

\* The monthly, annual and five_year figures of a benefit whose unrounded
\* monthly amount is the quotient q (of denominator d) cents.
BenefitFigures(q, d) ==
    [monthly |-> RoundQuot(q, d),
     annual |-> RoundQuot(Scale(q, 12, d), d),
     five_year |-> RoundQuot(Scale(q, 60, d), d)]

\* _calculate_base_savings: the categories are 60/20/10/10 percent of the
\* monthly cost reduction (reduction below is in 1/100 cent).
calculate_base_savings(current_costs, scenario) ==
    LET reduction ==
            current_costs.total_monthly_cost * scenario.multipliers.cost_reduction
        figures == BenefitFigures(Quot(reduction, 100), 100)
    IN  [monthly |-> figures.monthly,
         annual |-> figures.annual,
         five_year |-> figures.five_year,
         categories |->
             [direct_labor |-> RoundQuot(Scale(Quot(reduction, 1000), 6, 1000), 1000),
              overhead |-> RoundQuot(Scale(Quot(reduction, 1000), 2, 1000), 1000),
              training |-> RoundDiv(reduction, 1000),
              other |-> RoundDiv(reduction, 1000)]]

\* _calculate_operational_benefits: $2, $1.50 and $5 of value per call,
\* in 1/100 cent before rounding.
calculate_operational_benefits(metrics, scenario) ==
    LET productivity_gain ==
            metrics.calls_per_month * 2 * scenario.assumptions.efficiency_gain * 100
        quality_improvement_value ==
            metrics.calls_per_month * scenario.assumptions.quality_improvement * 150
        conversion_value ==
            metrics.calls_per_month * scenario.assumptions.conversion_boost * 500
        monthly_benefit ==
            Quot(productivity_gain + quality_improvement_value + conversion_value, 100)
        figures == BenefitFigures(monthly_benefit, 100)
    IN  [monthly |-> figures.monthly,
         annual |-> figures.annual,
         five_year |-> figures.five_year,
         categories |->
             [productivity |-> RoundDiv(productivity_gain, 100),
              quality |-> RoundDiv(quality_improvement_value, 100),
              conversion |-> RoundDiv(conversion_value, 100)]]

\* industry_factors of _calculate_industry_benefits
IndustryFactors ==
    <<
       <<(<<"f", "i", "n", "a", "n", "c", "i", "a", "l", "_", "s", "e", "r", "v", "i", "c", "e", "s">>),
         <<<<"compliance_value", 15>>, <<"risk_reduction", 10>>, <<"audit_efficiency", 5>>>> >>,
       <<(<<"h", "e", "a", "l", "t", "h", "c", "a", "r", "e">>),
         <<<<"hipaa_compliance", 20>>, <<"patient_satisfaction", 10>>, <<"record_accuracy", 5>>>> >>,
       <<(<<"r", "e", "a", "l", "_", "e", "s", "t", "a", "t", "e">>),
         <<<<"lead_response", 15>>, <<"follow_up", 10>>, <<"scheduling", 5>>>> >>,
       <<(<<"t", "e", "c", "h", "n", "o", "l", "o", "g", "y">>),
         <<<<"technical_accuracy", 10>>, <<"demo_efficiency", 10>>, <<"integration", 10>>>> >> >>

\* sum() of the items first..last of a sequence
RECURSIVE SumRange(_, _, _)
SumRange(seq, first, last) ==
    IF first > last THEN 0
    ELSE IF first = last THEN seq[first]
    ELSE SumRange(seq, first, (first + last) \div 2)
         + SumRange(seq, ((first + last) \div 2) + 1, last)

\* sum()
Sum(seq) ==
    SumRange(seq, 1, Len(seq))

RECURSIVE SumValues(_)
SumValues(dict) ==
    IF dict = <<>> THEN 0 ELSE dict[1][2] + SumValues(Tail(dict))

\* _calculate_industry_benefits: an industry without factors contributes 0.
calculate_industry_benefits(industry, current_costs, scenario) ==
    LET industry_multipliers ==
            IF HasKey(IndustryFactors, Lower(industry))
            THEN Get(IndustryFactors, Lower(industry))
            ELSE <<>>
        monthly_benefit ==
            Scale(Quot(current_costs.total_monthly_cost * SumValues(industry_multipliers),
                       10000),
                  scenario.multipliers.revenue_increase, 10000)
        figures == BenefitFigures(monthly_benefit, 10000)
    IN  [monthly |-> figures.monthly,
         annual |-> figures.annual,
         five_year |-> figures.five_year,
         categories |->
             [i \in 1..Len(industry_multipliers) |->
                 <<industry_multipliers[i][1],
                   RoundQuot(Scale(Quot(current_costs.total_monthly_cost
                                          * industry_multipliers[i][2], 10000),
                                   scenario.multipliers.revenue_increase, 10000),
                             10000)>>]]

\* BreakEvenUpdate overwriting a month it has already found.
BreakEvenUpdateOverwriting(break_even_month, cumulative, month) ==
    IF cumulative > 0 THEN Some(month) ELSE break_even_month

\* if break_even_month is None and cumulative > 0: break_even_month = month
BreakEvenUpdate(break_even_month, cumulative, month) ==
    IF break_even_month = None /\ cumulative > 0
    THEN Some(month)
    ELSE break_even_month

\* One pass of the projection loop: cumulative += net_flow, then the
\* break-even test.
LoopPass(cumulative, break_even_month, month) ==
    [cumulative |-> cumulative,
     break_even |-> BreakEvenUpdate(break_even_month, cumulative, month)]

\* The passes first..last of the projection loop, entered with the locals
\* `at`.  The passes run in order, the first half before the second; the
\* test on `at` makes TLC compute the locals a half is entered with before
\* it runs that half, which keeps the evaluation shallow.
RECURSIVE CashFlowLoop(_, _, _, _)
CashFlowLoop(first, last, at, net_flow) ==
    IF first > last \/ at.cumulative \notin Int
    THEN at
    ELSE IF first = last
    THEN LoopPass(at.cumulative + net_flow, at.break_even, first)
    ELSE CashFlowLoop(((first + last) \div 2) + 1, last,
                      CashFlowLoop(first, (first + last) \div 2, at, net_flow),
                      net_flow)

\* _project_cash_flows with cumulative starting at 0, not at -setup_cost.
ProjectCashFlowsUnseeded(base_savings, operational_benefits, industry_benefits, selected_tier) ==
    LET net_flow ==
            base_savings.monthly + operational_benefits.monthly
            + industry_benefits.monthly - selected_tier.price_per_month * 100
        end == CashFlowLoop(1, ProjectionMonths,
                            [cumulative |-> 0, break_even |-> None], net_flow)
    IN  [monthly |-> [month \in 1..ProjectionMonths |-> net_flow],
         cumulative |-> end.cumulative,
         break_even |-> end.break_even]

\* _project_cash_flows: the three monthly benefits in cents, the tier's
\* setup_fee and price_per_month in dollars.
project_cash_flows(base_savings, operational_benefits, industry_benefits, selected_tier) ==
    LET monthly_benefit ==
            base_savings.monthly + operational_benefits.monthly
            + industry_benefits.monthly
        setup_cost == selected_tier.setup_fee * 100
        monthly_cost == selected_tier.price_per_month * 100
        net_flow == monthly_benefit - monthly_cost
        end == CashFlowLoop(1, ProjectionMonths,
                            [cumulative |-> -setup_cost, break_even |-> None],
                            net_flow)
    IN  [monthly |-> [month \in 1..ProjectionMonths |-> net_flow],
         cumulative |-> end.cumulative,
         break_even |-> end.break_even]


\* _calculate_roi_metrics, without npv (a sum of 60 flows discounted at the
\* irrational monthly rate 1.1 ** (1/12) - 1): roi_percentage and irr in
\* 1/100 percent.
calculate_roi_metrics(cash_flows, selected_tier) ==
    LET initial_investment == selected_tier.setup_fee * 100
        gain == Sum(cash_flows.monthly) - initial_investment
    IN  IF initial_investment = 0
        THEN Raise("ZeroDivisionError", "float division by zero")
        ELSE [kind |-> "ok",
              roi_percentage |->
                  RoundQuot(Scale(Scale(Quot(gain, initial_investment),
                                        100, initial_investment),
                                  100, initial_investment),
                            initial_investment),
              payback_period |-> cash_flows.break_even,
              irr |->
                  RoundQuot(Scale(Scale(Quot(gain, initial_investment),
                                        100, initial_investment),
                                  20, initial_investment),
                            initial_investment)]

\* risk_levels of _analyze_risk_factors: the one label of the three risks.
RiskLevels ==
    <<
       <<(<<"c", "o", "n", "s", "e", "r", "v", "a", "t", "i", "v", "e">>), "Low">>,
       <<(<<"m", "o", "d", "e", "r", "a", "t", "e">>), "Medium">>,
       <<(<<"a", "g", "g", "r", "e", "s", "s", "i", "v", "e">>), "High">> >>

\* _analyze_risk_factors
analyze_risk_factors(scenario) ==
    IF HasKey(RiskLevels, Lower(scenario.name))
    THEN Get(RiskLevels, Lower(scenario.name))
    ELSE Get(RiskLevels, <<"m", "o", "d", "e", "r", "a", "t", "e">>)

\* ScenarioKey looking the name up as it is given.
ScenarioKeyAsGiven(scenario) ==
    scenario

\* The key calculate_comprehensive_roi looks the scenario up by.
ScenarioKey(scenario) ==
    Lower(scenario)

calculate_comprehensive_roi(current_costs, operational_metrics, selected_tier, industry, scenario) ==
    IF ~HasKey(scenarios, ScenarioKey(scenario))
    THEN Raise("ValueError", "Invalid scenario")
    ELSE
        LET scenario_config == Get(scenarios, ScenarioKey(scenario))
            base_savings == calculate_base_savings(current_costs, scenario_config)
            operational_benefits ==
                calculate_operational_benefits(operational_metrics, scenario_config)
            industry_benefits ==
                calculate_industry_benefits(industry, current_costs, scenario_config)
            cash_flows == project_cash_flows(
                base_savings, operational_benefits, industry_benefits, selected_tier)
            roi_metrics == calculate_roi_metrics(cash_flows, selected_tier)
        IN  IF roi_metrics.kind = "raise"
            THEN roi_metrics
            ELSE [kind |-> "ok",
                  summary |->
                      [total_annual_savings |->
                           base_savings.annual + operational_benefits.annual
                           + industry_benefits.annual,
                       roi_percentage |-> roi_metrics.roi_percentage,
                       payback_period_months |-> roi_metrics.payback_period,
                       irr |-> roi_metrics.irr],
                  detailed_benefits |->
                      [base_savings |-> base_savings,
                       operational_benefits |-> operational_benefits,
                       industry_benefits |-> industry_benefits],
                  projections |->
                      [monthly_cash_flows |-> cash_flows.monthly,
                       cumulative_savings |-> cash_flows.cumulative,
                       break_even_point |-> cash_flows.break_even],
                  scenario_analysis |->
                      [name |-> scenario_config.name,
                       assumptions |-> scenario_config.assumptions,
                       risk_factors |-> analyze_risk_factors(scenario_config)]]

(***************************************************************************)
(* The calls of the ROI projector                                          *)
(***************************************************************************)
\* current_costs["total_monthly_cost"] in cents; none of them puts an amount
\* the calculator rounds exactly on a half cent, where the binary float
\* nearest to the amount decides the rounding.
\* With the moderate scenario, no call and no industry benefit, 15200.00
\* and 15333.34 leave the 7500-dollar tier a net monthly flow of 100.00 and
\* of 166.67: 60 flows of 166.67 exceed its setup fee of 10000 by 0.20.
RoiCostInputs ==
    {0, 100000, 500000, 1234567, 1520000, 1533334, 4291600}

\* operational_metrics["calls_per_month"]
RoiCallsInputs ==
    {0, 1000, 5000}

\* selected_tier: setup_fee and price_per_month in dollars
RoiTierInputs ==
    {[setup_fee |-> 1000, price_per_month |-> 450],
     [setup_fee |-> 2500, price_per_month |-> 2000],
     [setup_fee |-> 10000, price_per_month |-> 7500],
     [setup_fee |-> 0, price_per_month |-> 450]}

RoiIndustryInputs ==
    { <<"f", "i", "n", "a", "n", "c", "i", "a", "l", "_", "s", "e", "r", "v", "i", "c", "e", "s">>,
      <<"T", "e", "c", "h", "n", "o", "l", "o", "g", "y">>,
      <<"F", "I", "N", "A", "N", "C", "I", "A", "L">> }

ScenarioInputs ==
    { <<"m", "o", "d", "e", "r", "a", "t", "e">>,
      <<"M", "o", "d", "e", "r", "a", "t", "e">>,
      <<"M", "O", "D", "E", "R", "A", "T", "E">>,
      <<"c", "o", "n", "s", "e", "r", "v", "a", "t", "i", "v", "e">>,
      <<"A", "g", "g", "r", "e", "s", "s", "i", "v", "e">>,
      <<"A", "g", "G", "r", "E", "s", "S", "i", "V", "e">>,
      <<"b", "a", "l", "a", "n", "c", "e", "d">>,
      <<>>,
      <<"m", "o", "d", "e", "r", "a", "t", "e", " ">>,
      <<"d", "e", "f", "a", "u", "l", "t">> }

\* The "monthly" amounts, in cents, that _project_cash_flows is given: with
\* the Starter tier they break even at month 1, 11, 60 and never.
MonthlyBenefitInputs ==
    {0, 45000, 46666, 46667, 55000, 200000}

RoiCalls ==
    {[op |-> "calculate_comprehensive_roi",
      args |-> <<[total_monthly_cost |-> c], [calls_per_month |-> n], t, i, sc>>] :
        c \in RoiCostInputs, n \in RoiCallsInputs, t \in RoiTierInputs,
        i \in RoiIndustryInputs, sc \in ScenarioInputs}
    \cup
    {[op |-> "project_cash_flows",
      args |-> <<[monthly |-> b], [monthly |-> o], [monthly |-> i], t>>] :
        b \in MonthlyBenefitInputs, o \in {0, 10000}, i \in {0, 1},
        t \in RoiTierInputs}

CalculateComprehensiveRoi ==
    /\ call.op = "calculate_comprehensive_roi"
    /\ Return(calculate_comprehensive_roi(
                  call.args[1], call.args[2], call.args[3], call.args[4], call.args[5]))

ProjectCashFlows ==
    /\ call.op = "project_cash_flows"
    /\ Return(project_cash_flows(call.args[1], call.args[2], call.args[3], call.args[4]))

InitRoi ==
    Constructed /\ Invoked(RoiCalls)

NextRoi ==
    \/ CalculateComprehensiveRoi
    \/ ProjectCashFlows

SpecRoi ==
    InitRoi /\ [][NextRoi]_vars

(***************************************************************************)
(* Claims about the ROI projector                                          *)
(***************************************************************************)
\* The least month of 1..60 after which -setup + month * net is positive,
\* None when there is none.
FirstPositiveMonth(setup, net) ==
    LET positive == {m \in 1..60 : m * net - setup > 0}
    IN  IF positive = {} THEN None ELSE Some(Min(positive))

\* C6: the break-even month that _project_cash_flows reports (and that
\* calculate_comprehensive_roi passes on) is the least month of 1..60 whose
\* cumulative total, seeded at -setup_fee, is > 0, and it is None exactly
\* when no month of 1..60 has a positive cumulative total.
C6_BreakEvenIsFirstPositive ==
    /\ Returned("project_cash_flows")
       => result.break_even =
              FirstPositiveMonth(
                  call.args[4].setup_fee * 100,
                  call.args[1].monthly + call.args[2].monthly + call.args[3].monthly
                  - call.args[4].price_per_month * 100)
    /\ (Returned("calculate_comprehensive_roi") /\ result.kind = "ok")
       => result.projections.break_even_point =
              FirstPositiveMonth(call.args[3].setup_fee * 100,
                                 result.projections.monthly_cash_flows[1])

\* A projection whose cumulative total is exactly 0 after month 10 and
\* positive from month 11 on has returned.
C6_Witness ==
    /\ Returned("project_cash_flows")
    /\ call.args[4].setup_fee = 1000
    /\ call.args[1].monthly + call.args[2].monthly + call.args[3].monthly
       - call.args[4].price_per_month * 100 = 10000
    /\ result.break_even = Some(11)
    /\ result.cumulative > 0

\* The two strings are equal up to the case of their letters.
EqualIgnoringCase(a, b) ==
    /\ Len(a) = Len(b)
    /\ \A i \in 1..Len(a) :
          \/ a[i] = b[i]
          \/ \E k \in 1..Len(UpperLetters) :
                {a[i], b[i]} = {UpperLetters[k], LowerLetters[k]}

\* C10: calculate_comprehensive_roi resolves a scenario name that is
\* conservative, moderate or aggressive in any casing to that scenario, and
\* for every other name raises the invalid-scenario error, returning no
\* savings and no cash flow; it never falls back to a default scenario.
C10_ScenarioLookup ==
    Returned("calculate_comprehensive_roi")
    => LET named == {i \in 1..Len(Scenarios) :
                        EqualIgnoringCase(call.args[5], Scenarios[i][1])}
       IN  IF named = {}
           THEN result = Raise("ValueError", "Invalid scenario")
           ELSE /\ result # Raise("ValueError", "Invalid scenario")
                /\ result = calculate_comprehensive_roi(
                                call.args[1], call.args[2], call.args[3], call.args[4],
                                Lower(call.args[5]))
                /\ result.kind = "ok"
                   => \A i \in named :
                         /\ result.scenario_analysis.name = Scenarios[i][2].name
                         /\ result.scenario_analysis.assumptions
                              = Scenarios[i][2].assumptions

\* A call naming the scenario in upper case has returned the moderate
\* scenario's result.
C10_Witness ==
    /\ Returned("calculate_comprehensive_roi")
    /\ call.args[5] = <<"M", "O", "D", "E", "R", "A", "T", "E">>
    /\ result.kind = "ok"
    /\ result.scenario_analysis.name = <<"M", "o", "d", "e", "r", "a", "t", "e">>

\* C20: calculate_comprehensive_roi with a valid scenario and a tier whose
\* setup_fee is 0 returns a result or fails with an error of the taxonomy
\* (an argument or not-found error, ValueError): the division by the setup
\* fee does not end in an arithmetic exception.
C20_ZeroSetupFeeDefined ==
    (/\ Returned("calculate_comprehensive_roi")
     /\ HasKey(Scenarios, Lower(call.args[5]))
     /\ call.args[3].setup_fee = 0)
    => \/ result.kind = "ok"
       \/ result.kind = "raise" /\ result.exc = "ValueError"

\* The net monthly flow of a returned calculate_comprehensive_roi, in
\* cents: the three monthly benefits minus the tier's price.
NetMonthlyFlow ==
    result.detailed_benefits.base_savings.monthly
    + result.detailed_benefits.operational_benefits.monthly
    + result.detailed_benefits.industry_benefits.monthly
    - call.args[3].price_per_month * 100

\* C27 as stated: for a tier with setup_fee > 0, payback_period_months
\* equals break_even_point, and it is non-null if and only if the 60-month
\* sum of net monthly flows exceeds the setup fee, i.e. if and only if
\* roi_percentage > 0 and the final cumulative is > 0; a non-positive net
\* monthly flow gives a null payback.
C27_PaybackIffPositiveRoi ==
    (/\ Returned("calculate_comprehensive_roi")
     /\ result.kind = "ok"
     /\ call.args[3].setup_fee > 0)
    => LET payback == result.summary.payback_period_months
       IN  /\ payback = result.projections.break_even_point
           /\ payback # None
              <=> ProjectionMonths * NetMonthlyFlow > call.args[3].setup_fee * 100
           /\ payback # None
              <=> (/\ result.summary.roi_percentage > 0
                   /\ result.projections.cumulative_savings > 0)
           /\ NetMonthlyFlow <= 0 => payback = None

\* C27 as amended: payback_period_months equals break_even_point; it is
\* non-null when the 60-month sum of net monthly flows exceeds the setup fee
\* and null when the sum falls short of it; a non-null payback comes with
\* roi_percentage >= 0 and a final cumulative >= 0 (both rounded to 2
\* places), a null one with roi_percentage <= 0 and a final cumulative
\* <= 0; a non-positive net monthly flow gives a null payback.
C27_PaybackIffSumExceedsFee ==
    (/\ Returned("calculate_comprehensive_roi")
     /\ result.kind = "ok"
     /\ call.args[3].setup_fee > 0)
    => LET payback == result.summary.payback_period_months
           total == ProjectionMonths * NetMonthlyFlow
       IN  /\ payback = result.projections.break_even_point
           /\ total > call.args[3].setup_fee * 100 => payback # None
           /\ total < call.args[3].setup_fee * 100 => payback = None
           /\ payback # None
              => (/\ result.summary.roi_percentage >= 0
                  /\ result.projections.cumulative_savings >= 0)
           /\ payback = None
              => (/\ result.summary.roi_percentage <= 0
                  /\ result.projections.cumulative_savings <= 0)
           /\ NetMonthlyFlow <= 0 => payback = None

\* A call has returned a payback of 60 months for 60 flows that exceed the
\* setup fee by so little that roi_percentage is 0.00.
C27_Witness ==
    /\ Returned("calculate_comprehensive_roi")
    /\ result.kind = "ok"
    /\ call.args[3].setup_fee > 0
    /\ NetMonthlyFlow > 0
    /\ result.summary.payback_period_months = Some(ProjectionMonths)
    /\ result.summary.roi_percentage = 0
    /\ result.projections.cumulative_savings > 0

(***************************************************************************)
(* CostAnalysisService.recommend_subscription.  Money is in cents.         *)
(***************************************************************************)
\* Suitable with a strict comparison.
SuitableStrictly(tier, current_monthly_calls) ==
    tier.max_calls > current_monthly_calls

\* The filter of suitable_tiers.
Suitable(tier, current_monthly_calls) ==
    tier.max_calls >= current_monthly_calls

\* The dict returned for a call volume that no tier is suitable for.
CustomEnterpriseSolution ==
    [kind |-> "ok",
     recommendation |-> "Custom Enterprise Solution",
     message |-> "Your call volume exceeds our standard tiers. We'll create a custom solution.",
     estimated_savings |-> None]

\* min with the last of several tiers of the lowest price.
MinByPriceLast(tiers, suitable_tiers) ==
    CHOOSE i \in suitable_tiers :
        /\ \A j \in suitable_tiers :
               tiers[i].price_per_month <= tiers[j].price_per_month
        /\ \A j \in suitable_tiers :
               tiers[j].price_per_month = tiers[i].price_per_month => j <= i

\* min(suitable_tiers, key=lambda x: x.price_per_month): the index of the
\* first tier, in list order, of the lowest price.
MinByPrice(tiers, suitable_tiers) ==
    Min({i \in suitable_tiers :
            \A j \in suitable_tiers :
                tiers[i].price_per_month <= tiers[j].price_per_month})

\* roi_months is in tenths of a month, cost_reduction_percentage in tenths
\* of a percent.
recommend_subscription(current_monthly_calls, current_monthly_cost) ==
    LET suitable_tiers ==
            {i \in 1..Len(cost_subscription_tiers) :
                Suitable(cost_subscription_tiers[i], current_monthly_calls)}
    IN  IF suitable_tiers = {}
        THEN CustomEnterpriseSolution
        ELSE
            LET recommended_tier ==
                    cost_subscription_tiers[
                        MinByPrice(cost_subscription_tiers, suitable_tiers)]
                monthly_savings ==
                    current_monthly_cost - recommended_tier.price_per_month * 100
                roi_months ==
                    IF monthly_savings > 0
                    THEN RoundDiv(recommended_tier.setup_fee * 1000, monthly_savings)
                    ELSE 0
            IN  IF current_monthly_cost = 0
                THEN Raise("ZeroDivisionError", "float division by zero")
                ELSE [kind |-> "ok",
                      recommendation |-> recommended_tier,
                      monthly_savings |-> monthly_savings,
                      annual_savings |-> monthly_savings * 12,
                      roi_months |-> roi_months,
                      cost_reduction_percentage |->
                          RoundQuot(Scale(Scale(Scale(Quot(monthly_savings,
                                                           current_monthly_cost),
                                                      10, current_monthly_cost),
                                                10, current_monthly_cost),
                                          10, current_monthly_cost),
                                    current_monthly_cost)]

(***************************************************************************)
(* The calls of the tier recommender                                       *)
(***************************************************************************)
\* current_monthly_calls, around every tier's max_calls
CurrentCallsInputs ==
    {0, 1000, 1001, 5000, 10000, 10001, 25000, 25001, 40000, 1000000}

\* current_monthly_cost in cents
CurrentCostInputs ==
    {0, 30000, 45000, 100000, 200000, 349999, 750000, 1234567, 2000000, 5000000}

\* round(x * 100, 1) of x = n / d with d > 0, in tenths of a percent
PercentTenths(n, d) ==
    RoundQuot(Scale(Scale(Scale(Quot(n, d), 10, d), 10, d), 10, d), d)

\* CostAnalysisService.calculate_roi_metrics (the ROI calculator has a
\* method of the same name): the figures of the returned dict, money in
\* cents, payback_period_months in tenths of a month.  The dict display
\* divides by monthly_savings first and by the current cost last.
cost_calculate_roi_metrics(current_costs, selected_tier) ==
    LET monthly_savings ==
            current_costs.total_monthly_cost - selected_tier.price_per_month * 100
        annual_savings == monthly_savings * 12
    IN  IF monthly_savings = 0 \/ current_costs.total_monthly_cost = 0
        THEN Raise("ZeroDivisionError", "float division by zero")
        ELSE [kind |-> "ok",
              monthly_savings |-> monthly_savings,
              annual_savings |-> annual_savings,
              setup_fee |-> selected_tier.setup_fee * 100,
              roi_metrics |->
                  [payback_period_months |->
                       IF monthly_savings > 0
                       THEN RoundDiv(selected_tier.setup_fee * 1000, monthly_savings)
                       ELSE RoundDiv(-(selected_tier.setup_fee * 1000), -monthly_savings),
                   first_year_savings |->
                       annual_savings - selected_tier.setup_fee * 100,
                   five_year_savings |->
                       annual_savings * 5 - selected_tier.setup_fee * 100,
                   cost_reduction_percentage |->
                       PercentTenths(monthly_savings,
                                     current_costs.total_monthly_cost)]]

CostCalls ==
    {[op |-> "recommend_subscription", args |-> <<n, c>>] :
        n \in CurrentCallsInputs, c \in CurrentCostInputs}

RoiMetricsCalls ==
    {[op |-> "calculate_roi_metrics",
      args |-> <<[total_monthly_cost |-> c], cost_subscription_tiers[i]>>] :
        c \in CurrentCostInputs, i \in 1..Len(cost_subscription_tiers)}

RecommendSubscription ==
    /\ call.op = "recommend_subscription"
    /\ Return(recommend_subscription(call.args[1], call.args[2]))

CalculateRoiMetrics ==
    /\ call.op = "calculate_roi_metrics"
    /\ Return(cost_calculate_roi_metrics(call.args[1], call.args[2]))

InitCost ==
    Constructed /\ (Invoked(CostCalls) \/ Invoked(RoiMetricsCalls))

NextCost ==
    \/ RecommendSubscription
    \/ CalculateRoiMetrics

SpecCost ==
    InitCost /\ [][NextCost]_vars

(***************************************************************************)
(* Claims about the tier recommender                                       *)
(***************************************************************************)
\* C9: recommend_subscription returns the 'Custom Enterprise Solution'
\* result, with estimated_savings None and no tier and no savings figure,
\* whenever no tier of the catalog has max_calls >= current_monthly_calls,
\* and then it does not raise; whenever a tier has, it returns or raises
\* something else.
C9_SentinelIffNoTier ==
    Returned("recommend_subscription")
    => IF \A i \in 1..Len(CostSubscriptionTiers) :
              CostSubscriptionTiers[i].max_calls < call.args[1]
       THEN /\ result.kind = "ok"
            /\ DOMAIN result = {"kind", "recommendation", "message", "estimated_savings"}
            /\ result.recommendation = "Custom Enterprise Solution"
            /\ result.estimated_savings = None
       ELSE /\ "estimated_savings" \notin DOMAIN result
            /\ result.kind = "ok"
               => /\ "monthly_savings" \in DOMAIN result
                  /\ \E i \in 1..Len(CostSubscriptionTiers) :
                        result.recommendation = CostSubscriptionTiers[i]

\* A call one above the largest max_calls has returned the custom result,
\* at a current cost of 0, where a tier's result divides by zero.
C9_Witness ==
    /\ Returned("recommend_subscription")
    /\ call.args[1] = 25001
    /\ call.args[2] = 0
    /\ result = CustomEnterpriseSolution

\* Lists of three tiers among which prices repeat.
TiedTierLists ==
    LET Tiers == {[name |-> n, max_calls |-> m, price_per_month |-> p, setup_fee |-> 1000] :
                     n \in {"A"}, m \in {1000, 5000}, p \in {450, 2000}}
    IN  {<<a, b, c>> : a \in Tiers, b \in Tiers, c \in Tiers}

\* i is, among the tiers of the list that qualify for the call volume, one
\* of the lowest price, and the earliest of those in list order.
CheapestQualifying(tiers, i, current_monthly_calls) ==
    /\ i \in 1..Len(tiers)
    /\ tiers[i].max_calls >= current_monthly_calls
    /\ \A j \in 1..Len(tiers) :
           tiers[j].max_calls >= current_monthly_calls
           => /\ tiers[i].price_per_month <= tiers[j].price_per_month
              /\ j < i => tiers[j].price_per_month > tiers[i].price_per_month

\* C12: when at least one tier qualifies (max_calls >= the call volume),
\* the tier recommend_subscription returns is a qualifying tier of the
\* lowest price_per_month among the qualifying tiers; of several
\* qualifying tiers of that price, min() yields the earliest of the list.
C12_CheapestQualifying ==
    /\ (Returned("recommend_subscription") /\ result.kind = "ok"
        /\ \E j \in 1..Len(CostSubscriptionTiers) :
               CostSubscriptionTiers[j].max_calls >= call.args[1])
       => \E i \in 1..Len(CostSubscriptionTiers) :
             /\ result.recommendation = CostSubscriptionTiers[i]
             /\ CheapestQualifying(CostSubscriptionTiers, i, call.args[1])
    /\ Returned("recommend_subscription")
       => \A tiers \in TiedTierLists :
             LET suitable == {i \in 1..Len(tiers) : Suitable(tiers[i], call.args[1])}
             IN  suitable # {}
                 => CheapestQualifying(tiers, MinByPrice(tiers, suitable), call.args[1])

\* A call volume that the first tier of the catalog does not qualify for
\* and three tiers do has returned the second tier.
C12_Witness ==
    /\ Returned("recommend_subscription")
    /\ call.args[1] = 1001
    /\ result.kind = "ok"
    /\ result.recommendation = CostSubscriptionTiers[2]

\* C13: whenever the monthly savings (current monthly cost minus the tier's
\* price) are <= 0, recommend_subscription returns a roi_months, and
\* calculate_roi_metrics a payback_period_months, that is not a finite
\* number, and neither raises.
C13_PaybackUndefined ==
    /\ (/\ Returned("recommend_subscription")
        /\ \E j \in 1..Len(CostSubscriptionTiers) :
               CostSubscriptionTiers[j].max_calls >= call.args[1])
       => LET suitable == {i \in 1..Len(CostSubscriptionTiers) :
                              Suitable(CostSubscriptionTiers[i], call.args[1])}
              tier == CostSubscriptionTiers[MinByPrice(CostSubscriptionTiers, suitable)]
          IN  call.args[2] - tier.price_per_month * 100 <= 0
              => (result.kind = "ok" /\ result.roi_months \notin Int)
    /\ (/\ Returned("calculate_roi_metrics")
        /\ call.args[1].total_monthly_cost - call.args[2].price_per_month * 100 <= 0)
       => (result.kind = "ok" /\ result.roi_metrics.payback_period_months \notin Int)

\* C24: recommend_subscription with current_monthly_cost = 0 and a call
\* volume that some tier covers returns a result or fails with a typed
\* error (ValueError); it never ends in an arithmetic exception.
C24_ZeroCostDefined ==
    (/\ Returned("recommend_subscription")
     /\ call.args[2] = 0
     /\ \E j \in 1..Len(CostSubscriptionTiers) :
            CostSubscriptionTiers[j].max_calls >= call.args[1])
    => \/ result.kind = "ok"
       \/ result.kind = "raise" /\ result.exc = "ValueError"

(***************************************************************************)
(* MarketPenetrationService.  Rates, shares and factors are in 1/1000000   *)
(* (0.05 is 50000); an industry speed is in tenths; a value the code       *)
(* rounds to n decimal places is in units of 10^-n.                        *)
(***************************************************************************)
\* a * b of two amounts in 1/1000000, floored to 1/1000000.
MulMicro(a, b) ==
    ((a \div 1000) * (b \div 1000))
    + ((((a \div 1000) * (b % 1000)) + ((a % 1000) * (b \div 1000))
        + (((a % 1000) * (b % 1000)) \div 1000)) \div 1000)

\* a / b in 1/1000000 for b > 0, floored.
DivMicro(a, b) ==
    Scale(Scale(Scale(Quot(a, b), 100, b), 100, b), 100, b)[1]

\* The cap with only its lower end.
ClampFromBelow(base_rate) ==
    IF base_rate < 50000 THEN 50000 ELSE base_rate

\* min(0.8, max(0.05, base_rate))
Clamp(base_rate) ==
    IF base_rate < 50000 THEN 50000
    ELSE IF base_rate > 800000 THEN 800000
    ELSE base_rate

\* The three blends of _calculate_base_penetration_rate: the weighted market
\* conditions, 1 - 0.7 * (sum of the competitors' shares), and the weighted
\* penetration factors.
Impacts(market_conditions, competitors, factors) ==
    LET competitive_pressure ==
            Sum([i \in 1..Len(competitors) |-> competitors[i].market_share])
    IN  [market_impact |->
            (2 * market_conditions.economic_growth
             + 3 * market_conditions.industry_growth
             + 3 * market_conditions.technology_adoption_rate
             + market_conditions.regulatory_environment
             + (1000000 - market_conditions.market_consolidation)) \div 10,
         competitive_impact |-> 1000000 - ((7 * competitive_pressure) \div 10),
         factor_impact |->
            (3 * (1000000 - factors.price_sensitivity)
             + 3 * factors.technology_readiness
             + 2 * factors.regulatory_compliance
             + 2 * (1000000 - factors.integration_complexity)) \div 10]

\* The product of the three impacts without the leading 0.3.
BaseRateUnscaled(market_impact, competitive_impact, factor_impact) ==
    MulMicro(MulMicro(market_impact, competitive_impact), factor_impact)

\* base_rate = 0.3 * market_impact * competitive_impact * factor_impact
BaseRate(market_impact, competitive_impact, factor_impact) ==
    MulMicro(MulMicro(MulMicro(300000, market_impact), competitive_impact),
             factor_impact)

\* _calculate_base_penetration_rate
calculate_base_penetration_rate(market_conditions, competitors, factors) ==
    LET impacts == Impacts(market_conditions, competitors, factors)
        base_rate == BaseRate(impacts.market_impact, impacts.competitive_impact,
                              impacts.factor_impact)
    IN  Clamp(base_rate)

\* Adoption with the saturation term turned round.
AdoptionOversaturated(base_rate, p, q, cumulative) ==
    MulMicro(base_rate, MulMicro(p + MulMicro(q, cumulative), cumulative - 1000000))

\* base_rate * ((p + q * cumulative) * (1 - cumulative))
Adoption(base_rate, p, q, cumulative) ==
    MulMicro(base_rate, MulMicro(p + MulMicro(q, cumulative), 1000000 - cumulative))

\* One pass of the curve loop: curve.append(adoption), cumulative += adoption.
CurvePass(at, adoption) ==
    [curve |-> Append(at.curve, adoption),
     cumulative |-> at.cumulative + adoption]

\* The passes t = first..last of the curve loop, entered with the locals
\* `at`, the first half before the second (see CashFlowLoop).
RECURSIVE CurveLoop(_, _, _, _, _, _)
CurveLoop(first, last, at, base_rate, p, q) ==
    IF first > last \/ at.cumulative \notin Int
    THEN at
    ELSE IF first = last
    THEN CurvePass(at, Adoption(base_rate, p, q, at.cumulative))
    ELSE CurveLoop(((first + last) \div 2) + 1, last,
                   CurveLoop(first, (first + last) \div 2, at, base_rate, p, q),
                   base_rate, p, q)

\* _generate_penetration_curve: p = 0.03 * industry_speed and
\* q = 0.4 * industry_speed, the speed in tenths.
generate_penetration_curve(base_rate, industry_speed, timeframe_months) ==
    CurveLoop(0, timeframe_months - 1, [curve |-> <<>>, cumulative |-> 0],
              base_rate, 3000 * industry_speed, 40000 * industry_speed).curve

\* (1 + weighted_growth) ** (m / 12): 1 when the competitors do not grow,
\* the one case modelled.
GrowthFactor(weighted_growth, m) ==
    CASE weighted_growth = 0 -> 1000000

\* _analyze_competitor_impact; monthly_impact is rounded to 4 places.
analyze_competitor_impact(competitors, timeframe_months) ==
    LET total_market_share ==
            Sum([i \in 1..Len(competitors) |-> competitors[i].market_share])
        weighted_growth ==
            Sum([i \in 1..Len(competitors) |->
                    MulMicro(competitors[i].market_share, competitors[i].growth_rate)])
        avg_satisfaction ==
            IF total_market_share > 0
            THEN DivMicro(Sum([i \in 1..Len(competitors) |->
                                  MulMicro(competitors[i].customer_satisfaction,
                                           competitors[i].market_share)]),
                          total_market_share)
            ELSE 0
        churn_opportunity ==
            Sum([i \in 1..Len(competitors) |->
                    MulMicro(competitors[i].market_share, competitors[i].churn_rate)])
    IN  [market_concentration |-> total_market_share,
         growth_trajectory |-> weighted_growth,
         satisfaction_gap |-> 1000000 - avg_satisfaction,
         churn_opportunity |-> churn_opportunity,
         monthly_impact |->
             [t \in 1..Max(0, timeframe_months) |->
                 RoundDiv(MulMicro(churn_opportunity,
                                   GrowthFactor(weighted_growth, t - 1)), 100)]]

\* _adjust_for_market_conditions
adjust_for_market_conditions(base_curve, conditions, competitor_impact) ==
    [t \in 1..Len(base_curve) |->
        MulMicro(base_curve[t],
                 MulMicro(MulMicro(MulMicro(1000000 + (conditions.economic_growth \div 2),
                                            1000000 + ((3 * conditions.industry_growth) \div 10)),
                                   1000000 + ((4 * conditions.technology_adoption_rate) \div 10)),
                          1000000 + (100 * competitor_impact.monthly_impact[t])))]

\* self.industry_adoption_speeds.get(industry.upper(), 1.0), in tenths
IndustrySpeed(industry) ==
    IF HasKey(industry_adoption_speeds, Upper(industry))
    THEN Get(industry_adoption_speeds, Upper(industry))
    ELSE 10

\* adjusted_base of _calculate_conversion_probabilities:
\* base_conversion * industry_factor * price_impact * tech_impact
\* * market_impact
AdjustedBase(industry, factors, conditions) ==
    MulMicro(MulMicro(MulMicro(20000 * IndustrySpeed(industry),
                               1000000 - (factors.price_sensitivity \div 2)),
                      1000000 + ((3 * factors.technology_readiness) \div 10)),
             1000000 + ((4 * conditions.industry_growth) \div 10))

\* _calculate_conversion_probabilities, rounded to 3 places.
calculate_conversion_probabilities(industry, factors, conditions) ==
    LET adjusted_base == AdjustedBase(industry, factors, conditions)
    IN  [initial_contact |-> RoundDiv(adjusted_base, 1000),
         demo_booking |-> RoundDiv(adjusted_base * 7, 10000),
         demo_completion |-> RoundDiv(adjusted_base * 8, 10000),
         proposal_acceptance |-> RoundDiv(adjusted_base * 6, 10000),
         contract_signing |-> RoundDiv(adjusted_base * 5, 10000)]

\* _determine_current_phase: the first phase whose running sum of shares the
\* penetration does not exceed, the last phase when there is none.
determine_current_phase(cumulative_penetration) ==
    LET reached ==
            {k \in 1..Len(adoption_curves) :
                cumulative_penetration
                <= Sum([j \in 1..k |-> adoption_curves[j][2]])}
    IN  IF reached = {}
        THEN adoption_curves[Len(adoption_curves)][1]
        ELSE adoption_curves[Min(reached)][1]

\* One pass of the loop of _calculate_adoption_phases: cumulative += rate,
\* then every phase still None whose share the cumulative has reached is
\* set to month + 1 (here t, counted from 1).  (\o <<>> has TLC build the
\* sequence here, not each time an item of it is read.)
PhasePass(at, rate, t) ==
    [cumulative |-> at.cumulative + rate,
     phases |->
         [k \in 1..Len(adoption_curves) |->
             IF at.phases[k] = None /\ at.cumulative + rate >= adoption_curves[k][2]
             THEN Some(t)
             ELSE at.phases[k]] \o <<>>]

\* The passes first..last of that loop, the first half before the second.
RECURSIVE PhaseLoop(_, _, _, _)
PhaseLoop(first, last, at, penetration_curve) ==
    IF first > last \/ at.cumulative \notin Int
    THEN at
    ELSE IF first = last
    THEN PhasePass(at, penetration_curve[first], first)
    ELSE PhaseLoop(((first + last) \div 2) + 1, last,
                   PhaseLoop(first, (first + last) \div 2, at, penetration_curve),
                   penetration_curve)

\* _calculate_adoption_phases
calculate_adoption_phases(penetration_curve) ==
    LET end == PhaseLoop(1, Len(penetration_curve),
                         [cumulative |-> 0,
                          phases |-> [k \in 1..Len(adoption_curves) |-> None]],
                         penetration_curve)
    IN  [phase_transitions |->
             [k \in 1..Len(adoption_curves) |-> <<adoption_curves[k][1], end.phases[k]>>],
         current_phase |-> determine_current_phase(end.cumulative)]

\* _analyze_risk_factors: the three category scores and the overall score,
\* rounded to 2 places.
analyze_market_risk_factors(industry, conditions, factors) ==
    LET market_risks ==
            RoundDiv((1000000 - conditions.economic_growth)
                     + conditions.market_consolidation
                     + (1000000 - conditions.regulatory_environment), 30000)
        adoption_risks ==
            RoundDiv(factors.price_sensitivity
                     + factors.integration_complexity
                     + (1000000 - factors.technology_readiness), 30000)
        competitive_risks ==
            RoundDiv(conditions.market_consolidation
                     + factors.price_sensitivity
                     + conditions.technology_adoption_rate, 30000)
    IN  [risk_scores |->
             [market_risks |-> market_risks,
              adoption_risks |-> adoption_risks,
              competitive_risks |-> competitive_risks],
         overall_risk_score |->
             RoundDiv(market_risks + adoption_risks + competitive_risks, 3)]

\* The three scores of _calculate_opportunity_score, in hundredths: each
\* is a weighted sum, the weights adding up to 100, times 100.
market_score(conditions) ==
    (20 * conditions.economic_growth
     + 30 * conditions.industry_growth
     + 30 * conditions.technology_adoption_rate
     + 20 * conditions.regulatory_environment) \div 100

competitive_score(competitor_impact) ==
    (40 * competitor_impact.satisfaction_gap
     + 60 * competitor_impact.churn_opportunity) \div 100

\* the conversion probabilities are in thousandths
conversion_score(conversion_probs) ==
    (20 * conversion_probs.initial_contact
     + 30 * conversion_probs.demo_completion
     + 50 * conversion_probs.contract_signing) * 10

\* _calculate_opportunity_score, rounded to 1 place.
calculate_opportunity_score(conditions, competitor_impact, conversion_probs) ==
    RoundDiv(4 * market_score(conditions)
             + 3 * competitive_score(competitor_impact)
             + 3 * conversion_score(conversion_probs), 100)

analyze_market_penetration(industry, market_conditions, competitors, penetration_factors, timeframe_months) ==
    LET base_rate ==
            calculate_base_penetration_rate(
                market_conditions, competitors, penetration_factors)
        penetration_curve ==
            generate_penetration_curve(base_rate, IndustrySpeed(industry), timeframe_months)
        competitor_impact == analyze_competitor_impact(competitors, timeframe_months)
        market_adjusted_curve ==
            adjust_for_market_conditions(
                penetration_curve, market_conditions, competitor_impact)
        conversion_probs ==
            calculate_conversion_probabilities(
                industry, penetration_factors, market_conditions)
    IN  [kind |-> "ok",
         monthly_penetration |->
             [t \in 1..Len(market_adjusted_curve) |->
                 RoundDiv(market_adjusted_curve[t], 100)],
         total_penetration |-> RoundDiv(Sum(market_adjusted_curve), 100),
         conversion_probabilities |-> conversion_probs,
         market_entry_strategy |->
             IF HasKey(market_entry_strategies, Upper(industry))
             THEN Some(Get(market_entry_strategies, Upper(industry)))
             ELSE None,
         adoption_phases |-> calculate_adoption_phases(market_adjusted_curve),
         risk_factors |->
             analyze_market_risk_factors(industry, market_conditions, penetration_factors),
         opportunity_score |->
             calculate_opportunity_score(
                 market_conditions, competitor_impact, conversion_probs)]

(***************************************************************************)
(* The calls of the market penetration model                               *)
(***************************************************************************)
\* The longest timeframe_months of a call.
MaxTimeframe ==
    36

\* base_rate: the two ends of the clamp and rates between them
BaseRateInputs ==
    {50000, 100000, 300000, 500000, 800000}

\* industry_speed: every speed of the table and the default
SpeedInputs ==
    {industry_adoption_speeds[i][2] : i \in 1..Len(industry_adoption_speeds)}
    \cup {10}

MarketIndustryInputs ==
    { <<"f", "i", "n", "a", "n", "c", "i", "a", "l">>,
      <<"T", "e", "c", "h", "n", "o", "l", "o", "g", "y">>,
      <<"e", "d", "u", "c", "a", "t", "i", "o", "n">>,
      <<"l", "e", "g", "a", "l">> }

MarketConditionsInputs ==
    {[economic_growth |-> 30000, industry_growth |-> 50000,
      technology_adoption_rate |-> 600000, regulatory_environment |-> 700000,
      market_consolidation |-> 400000],
     [economic_growth |-> 1000000, industry_growth |-> 1000000,
      technology_adoption_rate |-> 1000000, regulatory_environment |-> 1000000,
      market_consolidation |-> 0]}

\* competitors whose growth_rate is 0
CompetitorsInputs ==
    {<<>>,
     <<[market_share |-> 300000, growth_rate |-> 0,
        customer_satisfaction |-> 800000, churn_rate |-> 100000]>>,
     <<[market_share |-> 250000, growth_rate |-> 0,
        customer_satisfaction |-> 700000, churn_rate |-> 150000],
       [market_share |-> 150000, growth_rate |-> 0,
        customer_satisfaction |-> 600000, churn_rate |-> 200000]>>}

PenetrationFactorsInputs ==
    {[price_sensitivity |-> 600000, technology_readiness |-> 700000,
      regulatory_compliance |-> 800000, decision_cycle |-> 3,
      integration_complexity |-> 400000],
     [price_sensitivity |-> 0, technology_readiness |-> 1000000,
      regulatory_compliance |-> 1000000, decision_cycle |-> 1,
      integration_complexity |-> 0]}

MarketCalls ==
    {[op |-> "generate_penetration_curve", args |-> <<b, s, t>>] :
        b \in BaseRateInputs, s \in SpeedInputs, t \in 0..MaxTimeframe}
    \cup
    {[op |-> "analyze_market_penetration", args |-> <<i, mc, cs, pf, t>>] :
        i \in MarketIndustryInputs, mc \in MarketConditionsInputs,
        cs \in CompetitorsInputs, pf \in PenetrationFactorsInputs,
        t \in {0, 12, MaxTimeframe}}

\* Calls of _calculate_base_penetration_rate: conditions and factors inside
\* and outside [0, 1], no competitor, competitors whose shares add up to
\* less and to more than 1.
BasePenetrationRateCalls ==
    {[op |-> "calculate_base_penetration_rate", args |-> <<mc, cs, pf>>] :
        mc \in MarketConditionsInputs
               \cup {[economic_growth |-> e, industry_growth |-> g,
                      technology_adoption_rate |-> 3000000,
                      regulatory_environment |-> 1000000,
                      market_consolidation |-> c] :
                        e \in {-500000, 2000000}, g \in {0, 3000000},
                        c \in {-1000000, 0, 2000000}},
        cs \in CompetitorsInputs
               \cup {<<[market_share |-> 900000, growth_rate |-> 0,
                        customer_satisfaction |-> 800000, churn_rate |-> 100000],
                       [market_share |-> 800000, growth_rate |-> 0,
                        customer_satisfaction |-> 600000, churn_rate |-> 200000]>>},
        pf \in PenetrationFactorsInputs
               \cup {[price_sensitivity |-> s, technology_readiness |-> 2000000,
                      regulatory_compliance |-> r, decision_cycle |-> 3,
                      integration_complexity |-> -1000000] :
                        s \in {-2000000, 3000000}, r \in {-1000000, 2000000}}}

CalculateBasePenetrationRate ==
    /\ call.op = "calculate_base_penetration_rate"
    /\ Return([kind |-> "ok",
               base_rate |-> calculate_base_penetration_rate(
                                 call.args[1], call.args[2], call.args[3])])

\* Calls of _calculate_adoption_phases: curves of up to four monthly rates
\* whose running sum ends anywhere between 0 and 1.44.  No running sum
\* equals a share or a sum of shares, where the binary floats of the code
\* decide the comparison.
AdoptionPhasesCalls ==
    {[op |-> "calculate_adoption_phases", args |-> <<curve>>] :
        curve \in UNION {[1..n -> {20000, 130000, 360000}] : n \in 0..4}}

CalculateAdoptionPhases ==
    /\ call.op = "calculate_adoption_phases"
    /\ Return([kind |-> "ok",
               adoption_phases |-> calculate_adoption_phases(call.args[1])])

ConversionProbabilitiesCalls ==
    {[op |-> "calculate_conversion_probabilities", args |-> <<i, pf, mc>>] :
        i \in MarketIndustryInputs, pf \in PenetrationFactorsInputs,
        mc \in MarketConditionsInputs}

CalculateConversionProbabilities ==
    /\ call.op = "calculate_conversion_probabilities"
    /\ Return([kind |-> "ok",
               conversion_probabilities |->
                   calculate_conversion_probabilities(
                       call.args[1], call.args[2], call.args[3])])

\* Calls of _calculate_opportunity_score with every value in [0, 1]; the
\* conversion probabilities are in thousandths.
OpportunityScoreCalls ==
    {[op |-> "calculate_opportunity_score", args |-> <<mc, ci, cp>>] :
        mc \in MarketConditionsInputs
               \cup {[economic_growth |-> x, industry_growth |-> x,
                      technology_adoption_rate |-> x, regulatory_environment |-> x,
                      market_consolidation |-> x] : x \in {0, 500000}},
        ci \in {[satisfaction_gap |-> g, churn_opportunity |-> c] :
                   g \in {0, 200000, 1000000}, c \in {0, 30000, 1000000}},
        cp \in {[initial_contact |-> 0, demo_booking |-> 0, demo_completion |-> 0,
                 proposal_acceptance |-> 0, contract_signing |-> 0],
                [initial_contact |-> 259, demo_booking |-> 181, demo_completion |-> 207,
                 proposal_acceptance |-> 156, contract_signing |-> 130],
                [initial_contact |-> 1000, demo_booking |-> 1000, demo_completion |-> 1000,
                 proposal_acceptance |-> 1000, contract_signing |-> 1000]}}

CalculateOpportunityScore ==
    /\ call.op = "calculate_opportunity_score"
    /\ Return([kind |-> "ok",
               opportunity_score |-> calculate_opportunity_score(
                                         call.args[1], call.args[2], call.args[3])])

GeneratePenetrationCurve ==
    /\ call.op = "generate_penetration_curve"
    /\ Return([kind |-> "ok",
               curve |-> generate_penetration_curve(
                             call.args[1], call.args[2], call.args[3])])

AnalyzeMarketPenetration ==
    /\ call.op = "analyze_market_penetration"
    /\ Return(analyze_market_penetration(
                  call.args[1], call.args[2], call.args[3], call.args[4], call.args[5]))

InitMarket ==
    Constructed /\ (\/ Invoked(MarketCalls)
                    \/ Invoked(BasePenetrationRateCalls)
                    \/ Invoked(AdoptionPhasesCalls)
                    \/ Invoked(ConversionProbabilitiesCalls)
                    \/ Invoked(OpportunityScoreCalls))

NextMarket ==
    \/ GeneratePenetrationCurve
    \/ AnalyzeMarketPenetration
    \/ CalculateBasePenetrationRate
    \/ CalculateAdoptionPhases
    \/ CalculateConversionProbabilities
    \/ CalculateOpportunityScore

SpecMarket ==
    InitMarket /\ [][NextMarket]_vars

(***************************************************************************)
(* Claims about the penetration curve                                      *)
(***************************************************************************)
\* C8: for every base rate in [0.05, 0.8], every speed of the table or the
\* default 1.0 and every timeframe, each month's adoption in the curve of
\* _generate_penetration_curve is >= 0, so the running cumulative
\* penetration does not decrease, and the cumulative never exceeds 1.
C8_CurveBounded ==
    (/\ Returned("generate_penetration_curve")
     /\ call.args[1] >= 50000 /\ call.args[1] <= 800000
     /\ call.args[2] \in
            {IndustryAdoptionSpeeds[i][2] : i \in 1..Len(IndustryAdoptionSpeeds)}
            \cup {10})
    => /\ Len(result.curve) = call.args[3]
       /\ \A t \in 1..Len(result.curve) :
             /\ result.curve[t] >= 0
             /\ Sum(SubSeq(result.curve, 1, t)) >= Sum(SubSeq(result.curve, 1, t - 1))
             /\ Sum(SubSeq(result.curve, 1, t)) <= 1000000

\* The curve of the fastest industry at the highest base rate has been
\* generated for the longest timeframe and has saturated: the cumulative
\* is within 0.1% of 1 and the last adoption is 0.
C8_Witness ==
    /\ Returned("generate_penetration_curve")
    /\ call.args = <<800000, 15, MaxTimeframe>>
    /\ Sum(result.curve) > 999000
    /\ result.curve[1] = 36000
    /\ result.curve[Len(result.curve)] = 0

(***************************************************************************)
(* AdvancedCostAnalysisService.analyze_total_cost_of_ownership.  The       *)
(* totals are in sixths of a cent: a salary of S dollars a year costs      *)
(* S / 12 * 1.3 dollars a month.                                           *)
(***************************************************************************)
\* _calculate_direct_costs: the total
calculate_direct_costs(num_agents, avg_agent_salary) ==
    num_agents * (65 * avg_agent_salary + 6 * 50000)

\* _calculate_indirect_costs: the total
calculate_indirect_costs(num_agents, calls_per_month) ==
    6 * (10000 * num_agents + 50000 * num_agents + 50 * calls_per_month
         + 20000 * num_agents)

\* _calculate_opportunity_costs: the total
calculate_opportunity_costs(num_agents, calls_per_month) ==
    6 * (125 * calls_per_month + 50000 * num_agents + 10 * calls_per_month)

\* industry_costs of _calculate_industry_specific_costs: dollars per call
\* in hundredths, dollars per agent.
IndustryCosts ==
    <<
       <<(<<"f", "i", "n", "a", "n", "c", "i", "a", "l", "_", "s", "e", "r", "v", "i", "c", "e", "s">>),
         [per_call |-> 200, per_agent |-> 1500]>>,
       <<(<<"h", "e", "a", "l", "t", "h", "c", "a", "r", "e">>),
         [per_call |-> 150, per_agent |-> 1400]>>,
       <<(<<"r", "e", "a", "l", "_", "e", "s", "t", "a", "t", "e">>),
         [per_call |-> 0, per_agent |-> 600]>>,
       <<(<<"t", "e", "c", "h", "n", "o", "l", "o", "g", "y">>),
         [per_call |-> 0, per_agent |-> 1900]>> >>

\* _calculate_industry_specific_costs: the total, 0 for an industry that
\* has no entry.
calculate_industry_specific_costs(industry, num_agents, calls_per_month) ==
    IF HasKey(IndustryCosts, Lower(industry))
    THEN 6 * (Get(IndustryCosts, Lower(industry)).per_call * calls_per_month
              + Get(IndustryCosts, Lower(industry)).per_agent * 100 * num_agents)
    ELSE 0

\* _get_benchmark_comparison: the module statistics has no function
\* percentileofscore, so the call raises before it compares anything.
get_benchmark_comparison(cost_per_call) ==
    Raise("AttributeError", "module 'statistics' has no attribute 'percentileofscore'")

\* The dict display evaluates cost_per_call, then the breakdown, then the
\* benchmarks.
analyze_total_cost_of_ownership(num_agents, calls_per_month, avg_agent_salary, industry) ==
    LET total_monthly_cost ==
            calculate_direct_costs(num_agents, avg_agent_salary)
            + calculate_indirect_costs(num_agents, calls_per_month)
            + calculate_opportunity_costs(num_agents, calls_per_month)
            + calculate_industry_specific_costs(industry, num_agents, calls_per_month)
    IN  IF calls_per_month = 0
        THEN Raise("ZeroDivisionError", "float division by zero")
        ELSE get_benchmark_comparison(Quot(total_monthly_cost, 6 * calls_per_month))

(***************************************************************************)
(* The engine as a whole: the six operations, called in any order          *)
(***************************************************************************)
\* The number of other calls counted since a call was remembered.
MaxOthers ==
    2

FrameCalls ==
    {[op |-> "calculate_volume_discounts", args |-> <<450, v, m>>] :
        v \in {49999, 1000000}, m \in {12, 60}}
    \cup
    {[op |-> "optimize_contract_terms", args |-> <<c, i, b>>] :
        c \in {1000, 25000},
        i \in {<<"t", "e", "c", "h", "n", "o", "l", "o", "g", "y">>,
               <<"r", "e", "t", "a", "i", "l">>},
        b \in {None, Some(0), Some(100000000)}}
    \cup
    {[op |-> "recommend_subscription", args |-> <<n, c>>] :
        n \in {1000, 25001}, c \in {0, 750000}}
    \cup
    {[op |-> "calculate_comprehensive_roi",
      args |-> <<[total_monthly_cost |-> 500000], [calls_per_month |-> 1000], t,
                 <<"T", "e", "c", "h", "n", "o", "l", "o", "g", "y">>, sc>>] :
        t \in {[setup_fee |-> 1000, price_per_month |-> 450],
               [setup_fee |-> 0, price_per_month |-> 450]},
        sc \in {<<"M", "O", "D", "E", "R", "A", "T", "E">>,
                <<"b", "a", "l", "a", "n", "c", "e", "d">>}}
    \cup
    {[op |-> "analyze_market_penetration", args |-> <<i, mc, cs, pf, 12>>] :
        i \in {<<"f", "i", "n", "a", "n", "c", "i", "a", "l">>, <<"l", "e", "g", "a", "l">>},
        mc \in {[economic_growth |-> 30000, industry_growth |-> 50000,
                 technology_adoption_rate |-> 600000,
                 regulatory_environment |-> 700000,
                 market_consolidation |-> 400000]},
        cs \in {<<>>,
                <<[market_share |-> 300000, growth_rate |-> 0,
                   customer_satisfaction |-> 800000, churn_rate |-> 100000]>>},
        pf \in {[price_sensitivity |-> 600000, technology_readiness |-> 700000,
                 regulatory_compliance |-> 800000, decision_cycle |-> 3,
                 integration_complexity |-> 400000]}}
    \cup
    {[op |-> "analyze_total_cost_of_ownership", args |-> <<10, n, 35000, i>>] :
        n \in {0, 5000},
        i \in {<<"H", "e", "a", "l", "t", "h", "c", "a", "r", "e">>,
               <<"l", "e", "g", "a", "l">>}}

AnalyzeTotalCostOfOwnership ==
    /\ call.op = "analyze_total_cost_of_ownership"
    /\ Return(analyze_total_cost_of_ownership(
                  call.args[1], call.args[2], call.args[3], call.args[4]))

\* After a call has returned, a caller makes the next call.  A remembered
\* call counts the calls that differ from it.
Invoke(Calls) ==
    /\ result # Pending
    /\ call' \in Calls
    /\ result' = Pending
    /\ memo' = IF memo # None /\ call' # memo[1].call /\ memo[1].others < MaxOthers
               THEN Some([memo[1] EXCEPT !.others = @ + 1])
               ELSE memo
    /\ UNCHANGED catalogs

\* A caller keeps a call and what it returned, to compare a later call with.
Remember ==
    /\ result # Pending
    /\ memo' = Some([call |-> call, result |-> result, others |-> 0])
    /\ UNCHANGED <<catalogs, call, result>>

InitFrame ==
    Constructed /\ Invoked(FrameCalls)

NextFrame ==
    \/ AnalyzeTotalCostOfOwnership
    \/ RecommendSubscription
    \/ CalculateComprehensiveRoi
    \/ AnalyzeMarketPenetration
    \/ CalculateVolumeDiscounts
    \/ OptimizeContractTerms
    \/ Invoke(FrameCalls)
    \/ Remember

SpecFrame ==
    InitFrame /\ [][NextFrame]_vars

(***************************************************************************)
(* Claims about the engine as a whole                                      *)
(***************************************************************************)
\* C7: after any sequence of calls of the six engine operations every
\* catalog (the tiers, the volume and term discount tables, the scenarios,
\* the industry tables) is as it was constructed, and a call repeated with
\* the arguments of a remembered call returns what the remembered call
\* returned.
C7_CatalogsUnchanged ==
    /\ subscription_tiers = SubscriptionTiers
    /\ industry_profiles = IndustryProfiles
    /\ volume_discounts = VolumeDiscounts
    /\ term_incentives = TermIncentives
    /\ cost_subscription_tiers = CostSubscriptionTiers
    /\ scenarios = Scenarios
    /\ industry_adoption_speeds = IndustryAdoptionSpeeds
    /\ adoption_curves = AdoptionCurves
    /\ market_entry_strategies = MarketEntryStrategies
    /\ (memo # None /\ call = memo[1].call /\ result # Pending)
       => result = memo[1].result

\* A remembered call of the optimizer has been repeated after calls that
\* differ from it and has returned the same configuration.
C7_Witness ==
    /\ memo # None
    /\ memo[1].others = MaxOthers
    /\ call = memo[1].call
    /\ call.op = "optimize_contract_terms"
    /\ result.kind = "ok"
    /\ result = memo[1].result

\* The identifier strings tried for an industry: every key of the four
\* industry tables, in lower and in upper case.  What a component does with
\* a string depends on its lower-case or its upper-case form only, so a
\* string all components accept is, up to case, a key of each table.
IdentifierInputs ==
    LET keys == {IndustryCosts[i][1] : i \in 1..Len(IndustryCosts)}
                \cup {IndustryFactors[i][1] : i \in 1..Len(IndustryFactors)}
                \cup {IndustryAdoptionSpeeds[i][1] : i \in 1..Len(IndustryAdoptionSpeeds)}
                \cup IndustryNames
    IN  {Lower(k) : k \in keys} \cup {Upper(k) : k \in keys}

\* Every component takes the string for the k-th industry (financial
\* services, healthcare, real estate, technology): the cost model adds the
\* k-th entry of its cost table, the ROI projector uses the k-th entry of
\* its benefit table, the market model finds the k-th key of its
\* adoption-speed table, and optimize_contract_terms finds the k-th profile
\* and does not raise.
AcceptedEverywhere(industry, k) ==
    /\ HasKey(IndustryCosts, Lower(industry))
    /\ Lower(industry) = IndustryCosts[k][1]
    /\ calculate_industry_specific_costs(industry, 1, 1)
       = 6 * (IndustryCosts[k][2].per_call + IndustryCosts[k][2].per_agent * 100)
    /\ HasKey(IndustryFactors, Lower(industry))
    /\ Lower(industry) = IndustryFactors[k][1]
    /\ HasKey(industry_adoption_speeds, Upper(industry))
    /\ Upper(industry) = IndustryAdoptionSpeeds[k][1]
    /\ IndustrySpeed(industry) = IndustryAdoptionSpeeds[k][2]
    /\ Upper(industry) = IndustryProfiles[k][1]
    /\ optimize_contract_terms(1000, industry, None).kind = "ok"

\* C28: for each of the four supported industries there is a single
\* identifier string that every component accepts as that industry.
C28_OneIdentifierPerIndustry ==
    \A k \in 1..4 : \E industry \in IdentifierInputs : AcceptedEverywhere(industry, k)

(***************************************************************************)
(* analyze_total_cost_of_ownership called on its own, with arguments of    *)
(* either sign: the code validates none of them.                           *)
(***************************************************************************)
NumAgentsInputs ==
    {-1, 1, 10, 50}

CallsPerMonthInputs ==
    {-100, 0, 1, 5000}

\* avg_agent_salary, in dollars a year
AgentSalaryInputs ==
    {-1, 0, 35000}

TcoIndustryInputs ==
    {<<"h", "e", "a", "l", "t", "h", "c", "a", "r", "e">>,
     <<"F", "i", "n", "a", "n", "c", "i", "a", "l", "_", "S", "e", "r", "v", "i", "c", "e", "s">>,
     <<"l", "e", "g", "a", "l">>}

TcoCalls ==
    {[op |-> "analyze_total_cost_of_ownership", args |-> <<a, n, s, i>>] :
        a \in NumAgentsInputs, n \in CallsPerMonthInputs,
        s \in AgentSalaryInputs, i \in TcoIndustryInputs}

\* Calls of _get_benchmark_comparison: cost_per_call in cents, around the
\* benchmarks 6.0 and 12.0.
BenchmarkCalls ==
    {[op |-> "get_benchmark_comparison", args |-> <<c>>] :
        c \in {0, 599, 600, 601, 800, 1199, 1200, 1201, 5000}}

GetBenchmarkComparison ==
    /\ call.op = "get_benchmark_comparison"
    /\ Return(get_benchmark_comparison(call.args[1]))

InitTco ==
    Constructed /\ (Invoked(TcoCalls) \/ Invoked(BenchmarkCalls))

NextTco ==
    \/ AnalyzeTotalCostOfOwnership
    \/ GetBenchmarkComparison

SpecTco ==
    InitTco /\ [][NextTco]_vars

(***************************************************************************)
(* Claims about the total cost of ownership                                *)
(***************************************************************************)
\* The four category totals of a call, added up, in sixths of a cent.
CategoryTotals(num_agents, calls_per_month, avg_agent_salary, industry) ==
    calculate_direct_costs(num_agents, avg_agent_salary)
    + calculate_indirect_costs(num_agents, calls_per_month)
    + calculate_opportunity_costs(num_agents, calls_per_month)
    + calculate_industry_specific_costs(industry, num_agents, calls_per_month)

\* C11: for num_agents > 0, calls_per_month > 0 and avg_agent_salary >= 0
\* (any industry) analyze_total_cost_of_ownership returns a result whose
\* total_monthly_cost is >= 0 and is the sum of the four category totals,
\* and whose cost_per_call is that total divided by calls_per_month.
C11_TotalIsSumOfCategories ==
    (/\ Returned("analyze_total_cost_of_ownership")
     /\ call.args[1] > 0
     /\ call.args[2] > 0
     /\ call.args[3] >= 0)
    => /\ result.kind = "ok"
       /\ result.total_monthly_cost >= 0
       /\ result.total_monthly_cost =
              CategoryTotals(call.args[1], call.args[2], call.args[3], call.args[4])
       /\ result.cost_per_call * call.args[2] = result.total_monthly_cost

\* C21: for every cost_per_call _get_benchmark_comparison returns a
\* percentile and a standing: 'Low' iff cost_per_call <= 6.0, 'High' iff
\* cost_per_call >= 12.0, 'Average' otherwise.
C21_StandingByBenchmark ==
    Returned("get_benchmark_comparison")
    => /\ result.kind = "ok"
       /\ "percentile" \in DOMAIN result
       /\ result.standing = (IF call.args[1] <= 600 THEN "Low"
                             ELSE IF call.args[1] >= 1200 THEN "High"
                             ELSE "Average")

\* C14: analyze_total_cost_of_ownership fails with InvalidArgument
\* (ValueError) when num_agents, calls_per_month or avg_agent_salary is
\* negative, and with a division-by-zero error when calls_per_month = 0.
C14_TypedFailures ==
    Returned("analyze_total_cost_of_ownership")
    => /\ (call.args[1] < 0 \/ call.args[2] < 0 \/ call.args[3] < 0)
              => (result.kind = "raise" /\ result.exc = "ValueError")
       /\ (call.args[1] >= 0 /\ call.args[2] = 0 /\ call.args[3] >= 0)
              => (result.kind = "raise" /\ result.exc = "ZeroDivisionError")

(***************************************************************************)
(* Claims about the parts of the market penetration analysis               *)
(***************************************************************************)
\* C16: _calculate_base_penetration_rate returns a rate in [0.05, 0.8] for
\* every input: competitors whose shares add up to more than 1, no
\* competitor at all, conditions and factors outside [0, 1].
C16_BaseRateClamped ==
    Returned("calculate_base_penetration_rate")
    => (result.kind = "ok" /\ result.base_rate >= 50000 /\ result.base_rate <= 800000)

\* Calls have returned the lower end of the cap for competitors whose
\* shares add up to more than 1 and the upper end for conditions above 1
\* without a competitor.
C16_Witness ==
    /\ Returned("calculate_base_penetration_rate")
    /\ \/ /\ Sum([i \in 1..Len(call.args[2]) |-> call.args[2][i].market_share]) > 1000000
          /\ call.args[1].economic_growth = 2000000
          /\ result.base_rate = 50000
       \/ /\ call.args[2] = <<>>
          /\ call.args[1].economic_growth = 2000000
          /\ call.args[3].price_sensitivity = -2000000
          /\ result.base_rate = 800000

\* The product of the three blends of a call of
\* _calculate_base_penetration_rate: market blend x competitive impact x
\* factor blend.
BlendProduct ==
    LET impacts == Impacts(call.args[1], call.args[2], call.args[3])
    IN  MulMicro(MulMicro(impacts.market_impact, impacts.competitive_impact),
                 impacts.factor_impact)

\* min(0.8, max(0.05, rate)) written out for the claims below.
Capped(rate) ==
    IF rate < 50000 THEN 50000 ELSE IF rate > 800000 THEN 800000 ELSE rate

\* C22 as stated: before clamping, _calculate_base_penetration_rate computes
\* exactly the product of the three blends with no further factor, so that
\* the returned rate is that product capped to [0.05, 0.8].
C22_ProductOfBlends ==
    Returned("calculate_base_penetration_rate")
    => (result.kind = "ok" /\ result.base_rate = Capped(BlendProduct))

\* C22 as amended: before clamping the rate is 0.3 times the product of the
\* three blends; the returned rate is that value capped to [0.05, 0.8]
\* (within one millionth, the products being taken in another order).
C22_ThreeTenthsOfProduct ==
    Returned("calculate_base_penetration_rate")
    => /\ result.kind = "ok"
       /\ result.base_rate - Capped((3 * BlendProduct) \div 10) \in -1..1

\* A call has returned a rate strictly inside the cap for a blend product
\* that is itself inside the cap (the rate is the smaller of the two), or
\* for a blend product above the cap.
C22_Witness ==
    /\ Returned("calculate_base_penetration_rate")
    /\ \/ /\ BlendProduct > 50000 /\ BlendProduct < 800000
          /\ result.base_rate > 50000
          /\ result.base_rate < BlendProduct
       \/ /\ BlendProduct > 800000
          /\ result.base_rate > 50000 /\ result.base_rate < 800000

\* The cumulative threshold of the k-th phase: the shares of the phases up
\* to it added up (2.5%, 16%, 50%, 84%, 100%).
CumulativeThreshold(k) ==
    Sum([j \in 1..k |-> AdoptionCurves[j][2]])

\* The first month, counted from 1, at which the running sum of the curve
\* reaches the threshold; None when it never does.
FirstMonthReaching(curve, threshold) ==
    LET months == {t \in 1..Len(curve) : Sum(SubSeq(curve, 1, t)) >= threshold}
    IN  IF months = {} THEN None ELSE Some(Min(months))

\* C17: for each of the five phases _calculate_adoption_phases records the
\* first month at which the running cumulative penetration reaches the
\* phase's cumulative threshold (2.5%, 16%, 50%, 84%, 100%), and None for a
\* phase whose cumulative threshold is never reached.
C17_CumulativeThresholds ==
    Returned("calculate_adoption_phases")
    => \A k \in 1..Len(AdoptionCurves) :
          /\ result.adoption_phases.phase_transitions[k][1] = AdoptionCurves[k][1]
          /\ result.adoption_phases.phase_transitions[k][2]
             = FirstMonthReaching(call.args[1], CumulativeThreshold(k))

\* C25: in the phase_transitions _calculate_adoption_phases returns for a
\* non-negative curve the recorded months are non-decreasing in canonical
\* phase order, and no later phase has a recorded month while an earlier
\* phase is still None.
C25_TransitionsInPhaseOrder ==
    Returned("calculate_adoption_phases")
    => LET months == result.adoption_phases.phase_transitions
       IN  \A j, k \in 1..Len(months) :
              (j < k /\ months[k][2] # None)
              => (months[j][2] # None /\ months[j][2][1] <= months[k][2][1])

\* C26: no phase that comes after the reported current_phase in canonical
\* order has a recorded transition month in phase_transitions.
C26_NoTransitionPastCurrentPhase ==
    Returned("calculate_adoption_phases")
    => LET months == result.adoption_phases.phase_transitions
           current == CHOOSE k \in 1..Len(months) :
                          months[k][1] = result.adoption_phases.current_phase
       IN  \A k \in 1..Len(months) : k > current => months[k][2] = None

\* C18: _calculate_conversion_probabilities applies the funnel
\* multiplicatively to the adjusted base rate b: initial_contact = b,
\* demo_booking = b * 0.7, demo_completion = b * 0.7 * 0.8,
\* proposal_acceptance = b * 0.7 * 0.8 * 0.6 and contract_signing =
\* b * 0.7 * 0.8 * 0.6 * 0.5 (each rounded to 3 places), so that no stage
\* is more probable than the stage before it.
C18_MultiplicativeFunnel ==
    Returned("calculate_conversion_probabilities")
    => LET b == AdjustedBase(call.args[1], call.args[2], call.args[3])
           p == result.conversion_probabilities
       IN  /\ p.initial_contact = RoundDiv(b, 1000)
           /\ p.demo_booking = RoundDiv(b * 7, 10000)
           /\ p.demo_completion = RoundDiv(b * 56, 100000)
           /\ p.proposal_acceptance = RoundDiv(b * 336, 1000000)
           /\ p.contract_signing = RoundDiv(b * 168, 1000000)
           /\ p.initial_contact >= p.demo_booking
           /\ p.demo_booking >= p.demo_completion
           /\ p.demo_completion >= p.proposal_acceptance
           /\ p.proposal_acceptance >= p.contract_signing

\* C19: for market conditions, satisfaction gap, churn opportunity and
\* conversion probabilities in [0, 1], each of the three scores of
\* _calculate_opportunity_score (market, competitive, conversion) is in
\* [0, 100], and so is the opportunity score blended from them.
C19_ScoresWithinHundred ==
    Returned("calculate_opportunity_score")
    => /\ market_score(call.args[1]) \in 0..10000
       /\ competitive_score(call.args[2]) \in 0..10000
       /\ conversion_score(call.args[3]) \in 0..10000
       /\ result.opportunity_score \in 0..1000

(***************************************************************************)
(* Claims about the figures of a returned configuration                    *)
(***************************************************************************)
\* The catalog tier optimize_contract_terms has recommended.
RecommendedTier ==
    LET i == CHOOSE i \in 1..Len(SubscriptionTiers) :
                 SubscriptionTiers[i][2].name = result.recommended_tier
    IN  SubscriptionTiers[i][2]

\* tier price x (1 - combined discount) for the recommended (tier, term),
\* in thousandths of a dollar.
DiscountedMonthlyPrice ==
    LET discounts == calculate_volume_discounts(
                         RecommendedTier.price_per_month, call.args[1] * 12,
                         result.recommended_term)
    IN  (RecommendedTier.price_per_month * (10000 - discounts.combined_discount))
        \div 10

\* C23: in a configuration optimize_contract_terms returns, monthly_cost is
\* tier price x (1 - combined discount) for the recommended (tier, term), and
\* total_contract_value is that monthly_cost x recommended_term + the tier's
\* setup fee (both to the cent).
C23_MonthlyCostAndTotal ==
    (Returned("optimize_contract_terms") /\ result.kind = "ok")
    => /\ result.monthly_cost = 10 * RoundDiv(DiscountedMonthlyPrice, 10)
       /\ result.total_contract_value
          = 10 * RoundDiv(DiscountedMonthlyPrice * result.recommended_term
                          + RecommendedTier.setup_fee * 1000, 10)

\* C29: whenever optimize_contract_terms returns a configuration for
\* estimated_calls > 0, cost_breakdown.total_contract_value equals the
\* result's total_contract_value.
C29_BreakdownAgrees ==
    (Returned("optimize_contract_terms") /\ result.kind = "ok" /\ call.args[1] > 0)
    => result.cost_breakdown.total_contract_value = result.total_contract_value

\* C30: without a budget constraint and for 0 < estimated_calls <= 25000,
\* the tier optimize_contract_terms recommends has max_calls >=
\* estimated_calls.
C30_TierCoversVolume ==
    (/\ Returned("optimize_contract_terms")
     /\ call.args[3] = None
     /\ call.args[1] > 0 /\ call.args[1] <= 25000
     /\ HasProfile(call.args[2]))
    => (result.kind = "ok" /\ RecommendedTier.max_calls >= call.args[1])

====
